---- MODULE Spec2Model ----
(***************************************************************************)
(* A model of the binary cache store (src/libstore/binary-cache-store.cc). *)
(*                                                                         *)
(* A store path is modelled by its hash part (the only part the key of a   *)
(* .narinfo depends on).  A NAR is a sequence of chunks (integers); the    *)
(* NAR magic is a fixed prefix of three chunks.  A SHA-256 hash is the     *)
(* collision-free tagged value <<"sha256", bytes>>.                        *)
(***************************************************************************)
EXTENDS Integers, Sequences, FiniteSets, TLC

VARIABLES
    cfg,        \* the store's configuration, fixed at construction
    backend,    \* the blob backend: one key -> content map per kind of key
    tier1,      \* state->pathInfoCache, by hash part
    tier2,      \* diskCache, by hash part
    stats,      \* the statistics counters
    thr,        \* per thread: the operation in progress or just returned
    calls,      \* operations begun so far
    envOps,     \* steps of the environment so far
    crashed,    \* the process has aborted
    ingested,   \* history: per path, the NAR of its last completed ingest
    tampered,   \* another party has deleted or written a key of the backend
    settings,   \* wantMassQuery and priority, as init() leaves them
    drv,        \* the Derivation at hand
    aterm,      \* the text of a derivation: what unparse gave, or an edit of it
    edit,       \* what was done to the text since unparse
    parsed,     \* what parseDerivation made of the text
    drvHashes,  \* the memo table of hashDerivationModulo, by derivation path
    last,       \* the latest call of hashDerivationModulo
    prev,       \* the call before it
    wire,       \* what writeDerivation put into the sink
    target      \* the BasicDerivation readDerivation fills

\* The variables of derivations.cc.
drvVars == <<drv, aterm, edit, parsed, drvHashes, last, prev, wire,
      target>>

\* The variables the operations of addToStore, narFromPath and
\* queryPathInfoUncached never touch.
others == <<settings, drvVars>>

\* No derivation at hand, no call of hashDerivationModulo made.
NoDerivation ==
    /\ drv = <<>>
    /\ aterm = <<>>
    /\ edit = <<>>
    /\ parsed = <<>>
    /\ drvHashes = <<>>
    /\ last = <<>>
    /\ prev = <<>>
    /\ wire = <<>>
    /\ target = <<>>

vars ==
    <<cfg, backend, tier1, tier2, stats, thr, calls, envOps, crashed, ingested,
      tampered, others>>

---------------------------------------------------------------------------
(* Bounds *)

MaxCalls == 2

MaxEnv == 1

---------------------------------------------------------------------------
(* Data *)

\* The store paths, in the order a StorePathSet iterates them.
PathOrder == <<"a", "b">>

Paths == { PathOrder[i] : i \in 1..Len(PathOrder) }

Threads == {1, 2}

\* narVersionMagic1 as written to a StringSink: length word, text, padding.
NarMagic == <<13, 110, 0>>

\* A chunk >= 200 stands for a member /lib/debug/.build-id/xx/<38hex>.debug
\* whose build id is the chunk minus 200.
ValidNars == { NarMagic \o <<1>>, NarMagic \o <<2, 201>> }

\* A source whose bytes are shorter than, or differ from, the magic.
BadNars == { <<13, 110>> }

Nars == ValidNars \cup BadNars

Compressions == {"none", "xz"}

NoHash == <<"none", <<>>>>

hashString(s) == <<"sha256", s>>

NoUrl == <<NoHash, "">>

NoInfo ==
    [ path |-> "", url |-> NoUrl, compression |-> "", fileHash |-> NoHash,
      fileSize |-> 0, narHash |-> NoHash, narSize |-> 0, references |-> {},
      deriver |-> "", sigs |-> {}, ca |-> "" ]

\* A ValidPathInfo as a caller of addToStore passes it: no references, or
\* references to itself and to the other path; no narHash, or the hash of
\* one of the NARs (right for that NAR, wrong for every other).
Infos ==
    { [NoInfo EXCEPT !.path = p, !.references = r, !.narHash = h] :
        p \in Paths, r \in {{}, Paths},
        h \in {NoHash, hashString(NarMagic \o <<1>>)} }

---------------------------------------------------------------------------
(* Compression (compression.hh): a reversible encoding tagged by method *)

\* 253 is the first byte of an xz stream.
compress(method, nar) ==
    IF method = "xz" THEN <<253>> \o nar ELSE nar

\* [ok, data]: the bytes a decompression sink of `method` hands on.
decompress(method, blob) ==
    IF method = "xz"
    THEN IF Len(blob) > 0 /\ blob[1] = 253
         THEN [ok |-> TRUE, data |-> Tail(blob)]
         ELSE [ok |-> FALSE, data |-> <<>>]
    ELSE [ok |-> TRUE, data |-> blob]

---------------------------------------------------------------------------
(* The narinfo file (nar-info.cc): Key: Value lines *)

to_string(ni) ==
    [ StorePath |-> ni.path, URL |-> ni.url, Compression |-> ni.compression,
      FileHash |-> ni.fileHash, FileSize |-> ni.fileSize,
      NarHash |-> ni.narHash, NarSize |-> ni.narSize,
      References |-> ni.references, Deriver |-> ni.deriver,
      Sig |-> ni.sigs, CA |-> ni.ca ]

\* A narinfo file some other writer left behind that does not parse.
CorruptText == to_string(NoInfo)

\* [ok, info]: the NarInfo constructor throws on a file lacking a field.
ParseNarInfo(text) ==
    IF text.StorePath = "" \/ text.URL = NoUrl \/ text.NarHash = NoHash
    THEN [ok |-> FALSE, info |-> NoInfo]
    ELSE [ok |-> TRUE,
          info |-> [ path |-> text.StorePath, url |-> text.URL,
                     compression |-> text.Compression,
                     fileHash |-> text.FileHash, fileSize |-> text.FileSize,
                     narHash |-> text.NarHash, narSize |-> text.NarSize,
                     references |-> text.References, deriver |-> text.Deriver,
                     sigs |-> text.Sig, ca |-> text.CA ]]

---------------------------------------------------------------------------
(* The backend: a flat key-value space, one map per kind of key *)

EmptyMap == [x \in {} |-> 0]

EmptyBackend ==
    [ narinfo |-> EmptyMap, nar |-> EmptyMap, ls |-> EmptyMap,
      debuginfo |-> EmptyMap, top |-> EmptyMap ]

fileExists(b, kind, key) == key \in DOMAIN b[kind]

upsertFile(b, kind, key, data) ==
    [b EXCEPT ![kind] =
        [x \in DOMAIN b[kind] \cup {key} |-> IF x = key THEN data ELSE b[kind][x]]]

\* The backend's own sink-based getFile: raises NoSuchBinaryCacheFile
\* for a missing key; `fail` is a transport failure.
BackendGetSink(b, kind, key, fail) ==
    IF fail THEN [res |-> "error", data |-> <<>>]
    ELSE IF fileExists(b, kind, key)
         THEN [res |-> "data", data |-> <<b[kind][key]>>]
         ELSE [res |-> "NoSuch", data |-> <<>>]

\* The backend's own async getFile: hands its callback the bytes, an empty
\* pointer for a missing key, or an exception.
BackendGetAsync(b, kind, key, fail) ==
    IF fail THEN [res |-> "error", data |-> <<>>]
    ELSE IF fileExists(b, kind, key)
         THEN [res |-> "data", data |-> <<b[kind][key]>>]
         ELSE [res |-> "null", data |-> <<>>]

\* getFile(path, sink).  A backend of kind "sink" overrides it.  Otherwise
\* the promise is fulfilled from the backend's async getFile and the result
\* is dereferenced unchecked: with an empty pointer the behaviour is
\* undefined ("ub").
getFileSink(c, b, kind, key, fail) ==
    IF c.backendKind = "sink" THEN BackendGetSink(b, kind, key, fail)
    ELSE LET r == BackendGetAsync(b, kind, key, fail)
         IN  IF r.res = "null" THEN [res |-> "ub", data |-> <<>>] ELSE r

\* getFile(path): NoSuchBinaryCacheFile becomes an empty pointer.
getFileSync(c, b, kind, key, fail) ==
    LET r == getFileSink(c, b, kind, key, fail)
    IN  IF r.res = "NoSuch" THEN [res |-> "null", data |-> <<>>] ELSE r

\* getFile(path, callback): what the callback's future carries.  A backend of
\* kind "async" overrides it; otherwise callback(getFile(path)), an
\* exception being rethrown into the callback.
getFileAsync(c, b, kind, key, fail) ==
    IF c.backendKind = "async" THEN BackendGetAsync(b, kind, key, fail)
    ELSE getFileSync(c, b, kind, key, fail)

narInfoFileFor(p) == <<p, "narinfo">>

isValidPathUncached(b, p) == fileExists(b, "narinfo", narInfoFileFor(p))

---------------------------------------------------------------------------
(* queryPathInfoUncached *)

Delivery(kind, info) == [kind |-> kind, info |-> info]

\* (*callbackPtr)(d) inside the lambda's try block.  `contThrows`: the
\* callback's continuation throws while it is handed d.  The exception then
\* either escapes the call (`escapes`), is caught by the lambda's catch (...)
\* and rethrown into the same callback, or ends the process (a callback whose
\* call operator is noexcept).
InvokeCallback(d, contThrows, escapes) ==
    IF ~contThrows THEN [cb |-> <<d>>, terminated |-> FALSE]
    ELSE IF escapes
         THEN [cb |-> <<d, Delivery("exc", NoInfo)>>, terminated |-> FALSE]
         ELSE [cb |-> <<d>>, terminated |-> TRUE]

\* The lambda handed to getFile, run on what the future `f` carries.
\* [cb, read, terminated]: the deliveries made to the callback, in order,
\* the increment of stats.narInfoRead, and whether the process ended.
DeliverParsed(n, contThrows, escapes) ==
    IF n.ok
    THEN InvokeCallback(Delivery("value", n.info), contThrows, escapes) @@ [read |-> 1]
    ELSE [cb |-> <<Delivery("exc", NoInfo)>>, terminated |-> FALSE, read |-> 1]

DeliverFetched(f, contThrows, escapes) ==
    IF f.res = "data"
    THEN DeliverParsed(ParseNarInfo(f.data[1]), contThrows, escapes)
    ELSE IF f.res = "null"
    THEN InvokeCallback(Delivery("null", NoInfo), contThrows, escapes) @@ [read |-> 0]
    ELSE [cb |-> <<Delivery("exc", NoInfo)>>, terminated |-> FALSE, read |-> 0]

queryPathInfoUncached(c, b, p, fail, contThrows, escapes) ==
    DeliverFetched(getFileAsync(c, b, "narinfo", narInfoFileFor(p), fail),
                   contThrows, escapes)

---------------------------------------------------------------------------
(* The path-info cache and the Store's cached queries (store-api.cc) *)

Unknown == [state |-> "unknown", info |-> NoInfo]

Negative == [state |-> "invalid", info |-> NoInfo]

Positive(ni) == [state |-> "valid", info |-> ni]

\* Lookup order: tier 1, tier 2, backend.
isValidPath(c, b, t1, t2, p) ==
    IF t1[p].state # "unknown" THEN t1[p].state = "valid"
    ELSE IF c.diskCache /\ t2[p].state # "unknown" THEN t2[p].state = "valid"
    ELSE isValidPathUncached(b, p)

\* What a lookup that found entry `e` answers.
FromCache(e, t1, t2) ==
    [res |-> IF e.state = "valid" THEN "value" ELSE "InvalidPath",
     info |-> e.info, t1 |-> t1, t2 |-> t2, read |-> 0]

\* The Store's continuation on delivery `d` of queryPathInfoUncached: a
\* fetched value (or its absence) populates both tiers.
FromBackend(c, t1, t2, p, d, e, read) ==
    IF d.kind = "exc"
    THEN [res |-> "error", info |-> NoInfo, t1 |-> t1, t2 |-> t2, read |-> read]
    ELSE [res |-> IF d.kind = "value" THEN "value" ELSE "InvalidPath",
          info |-> d.info,
          t1 |-> [t1 EXCEPT ![p] = e],
          t2 |-> IF c.diskCache THEN [t2 EXCEPT ![p] = e] ELSE t2,
          read |-> read]

Fetched(c, t1, t2, p, u) ==
    FromBackend(c, t1, t2, p, u.cb[1],
                IF u.cb[1].kind = "value" THEN Positive(u.cb[1].info) ELSE Negative,
                u.read)

\* [res, info, t1, t2, read]: res is "value", "InvalidPath" or "error".
queryPathInfo(c, b, t1, t2, p, fail) ==
    IF t1[p].state # "unknown" THEN FromCache(t1[p], t1, t2)
    ELSE IF c.diskCache /\ t2[p].state # "unknown" THEN FromCache(t2[p], t1, t2)
    ELSE Fetched(c, t1, t2, p, queryPathInfoUncached(c, b, p, fail, FALSE, FALSE))

---------------------------------------------------------------------------
(* addToStore (NAR source) *)

HasMagic(nar) ==
    Len(nar) >= Len(NarMagic) /\ SubSeq(nar, 1, Len(NarMagic)) = NarMagic

\* The reference loop from the i-th path on.  [res, ref, t1, t2, read]: res is
\* "ok", "InvalidPath" (ref is the reference found invalid) or "error" (an
\* exception of queryPathInfo other than InvalidPath, which is not caught).
RECURSIVE CheckReferences(_, _, _, _, _, _, _)

AddRead(r, n) == [r EXCEPT !.read = @ + n]

\* The reference loop without its `throw Error(...)`: an invalid reference
\* is passed over.
CheckReferenceLenient(c, b, info, i, fail, q) ==
    IF q.res \in {"value", "InvalidPath"}
    THEN AddRead(CheckReferences(c, b, q.t1, q.t2, info, i + 1, fail), q.read)
    ELSE [res |-> q.res, ref |-> PathOrder[i], t1 |-> q.t1, t2 |-> q.t2,
          read |-> q.read]

CheckReference(c, b, info, i, fail, q) ==
    IF q.res = "value"
    THEN AddRead(CheckReferences(c, b, q.t1, q.t2, info, i + 1, fail), q.read)
    ELSE [res |-> q.res, ref |-> PathOrder[i], t1 |-> q.t1, t2 |-> q.t2,
          read |-> q.read]

CheckReferences(c, b, t1, t2, info, i, fail) ==
    IF i > Len(PathOrder)
    THEN [res |-> "ok", ref |-> "", t1 |-> t1, t2 |-> t2, read |-> 0]
    ELSE IF PathOrder[i] \notin info.references \/ PathOrder[i] = info.path
    THEN CheckReferences(c, b, t1, t2, info, i + 1, fail)
    ELSE CheckReference(c, b, info, i, fail,
                        queryPathInfo(c, b, t1, t2, PathOrder[i], fail))

Extension(compression) ==
    IF compression = "xz" THEN ".xz"
    ELSE IF compression = "bzip2" THEN ".bz2"
    ELSE IF compression = "br" THEN ".br"
    ELSE ""

\* A NarInfo that keeps the narSize and narHash the caller claimed.
MakeNarInfoClaimed(c, info, nar) ==
    LET narCompressed == compress(c.compression, nar)
        fileHash == hashString(narCompressed)
    IN  [info EXCEPT !.compression = c.compression,
                     !.fileHash = fileHash,
                     !.fileSize = Len(narCompressed),
                     !.url = <<fileHash, Extension(c.compression)>>]

\* A NarInfo that does not record the compression method of its blob.
MakeNarInfoPlain(c, info, nar) ==
    LET narCompressed == compress(c.compression, nar)
        fileHash == hashString(narCompressed)
    IN  [info EXCEPT !.narSize = Len(nar),
                     !.narHash = hashString(nar),
                     !.compression = "none",
                     !.fileHash = fileHash,
                     !.fileSize = Len(narCompressed),
                     !.url = <<fileHash, Extension(c.compression)>>]

\* The NarInfo built from info and the drained NAR: narSize, narHash,
\* compression, fileHash, fileSize, url.
MakeNarInfo(c, info, nar) ==
    LET narCompressed == compress(c.compression, nar)
        fileHash == hashString(narCompressed)
    IN  [info EXCEPT !.narSize = Len(nar),
                     !.narHash = hashString(nar),
                     !.compression = c.compression,
                     !.fileHash = fileHash,
                     !.fileSize = Len(narCompressed),
                     !.url = <<fileHash, Extension(c.compression)>>]

\* No comparison of the claimed hash with the computed one.
HashNeverChecked(info, nar) == FALSE

\* `info.narHash && info.narHash != narInfo->narHash`
HashMismatch(info, nar) ==
    info.narHash # NoHash /\ info.narHash # hashString(nar)

\* The build ids of the members of /lib/debug/.build-id in the NAR.
BuildIds(nar) ==
    { nar[i] - 200 : i \in { j \in 1..Len(nar) : nar[j] >= 200 } }

\* The skip taken for the paths that are not valid.
SkipWhenInvalid(repair, valid) == ~repair /\ ~valid

\* No skip at all.
NeverSkip(repair, valid) == FALSE

\* `!repair && isValidPath(info.path)`
SkipIngest(repair, valid) == ~repair /\ valid

ChecksResult(r, outcome, err, ni) ==
    [t1 |-> r.t1, t2 |-> r.t2, read |-> r.read, ref |-> r.ref, narInfo |-> ni,
     outcome |-> outcome, err |-> err]

\* Lines 126-143 and 170-188 on the result `r` of the reference loop.
ChecksAfterReferences(c, info, nar, r) ==
    IF r.res = "InvalidPath"
    THEN ChecksResult(r, "error", "reference is not valid", NoInfo)
    ELSE IF r.res = "error"
    THEN ChecksResult(r, "error", "backend", NoInfo)
    ELSE IF ~HasMagic(nar)
    THEN ChecksResult(r, "abort", "assert", NoInfo)
    ELSE IF HashMismatch(info, nar)
    THEN ChecksResult(r, "error", "refusing to copy corrupted path", NoInfo)
    ELSE ChecksResult(r, "none", "", MakeNarInfo(c, info, nar))

\* addToStore from the drain to the compression: the outcome of the checks,
\* in the order the code makes them, the caches as the reference queries
\* leave them, and the NarInfo to write.
AddToStoreChecks(c, b, t1, t2, info, nar, repair, fail) ==
    IF SkipIngest(repair, isValidPath(c, b, t1, t2, info.path))
    THEN ChecksResult([t1 |-> t1, t2 |-> t2, read |-> 0, ref |-> ""],
                      "skipped", "", NoInfo)
    ELSE ChecksAfterReferences(c, info, nar,
                               CheckReferences(c, b, t1, t2, info, 1, fail))

Listing(nar) == [version |-> 1, root |-> SubSeq(nar, Len(NarMagic) + 1, Len(nar))]

DebugLink(url, id) == [archive |-> url, member |-> id]

Fingerprint(ni) == <<ni.path, ni.narHash, ni.narSize, ni.references>>

\* narInfo->sign(*this, *secretKey)
Sign(ni) == [ni EXCEPT !.sigs = @ \cup {<<"cache-key-1", Fingerprint(ni)>>}]

\* writeNarInfo: the upsert of the .narinfo, then both cache tiers.
\* `fail`: upsertFile throws.
writeNarInfo(c, b, t1, t2, ni, fail) ==
    IF fail THEN [ok |-> FALSE, b |-> b, t1 |-> t1, t2 |-> t2]
    ELSE [ok |-> TRUE,
          b  |-> upsertFile(b, "narinfo", narInfoFileFor(ni.path), to_string(ni)),
          t1 |-> [t1 EXCEPT ![ni.path] = Positive(ni)],
          t2 |-> IF c.diskCache THEN [t2 EXCEPT ![ni.path] = Positive(ni)] ELSE t2]

---------------------------------------------------------------------------
(* State *)

IdleThread ==
    [ pc |-> "idle", op |-> "none", seq |-> 0, outcome |-> "none", err |-> "",
      ref |-> "",
      path |-> "", refs |-> {}, claimed |-> NoHash, nar |-> <<>>,
      repair |-> FALSE, ioFail |-> FALSE, wasValid |-> FALSE,
      narInfo |-> NoInfo, dbgTodo |-> {}, dbgWrite |-> {}, dbgErr |-> FALSE,
      written |-> {}, sink |-> <<>>, finished |-> FALSE, fetch |-> "",
      cb |-> <<>>, sigs |-> {}, before |-> NoInfo ]

\* A call that has returned (or thrown): its arguments (path, refs, claimed,
\* nar, repair), the failure the backend was made to show it (ioFail), and
\* what the caller observes of it.
Returned(rec, outcome, err) ==
    [rec EXCEPT !.pc = "done", !.outcome = outcome, !.err = err,
                !.dbgTodo = {}, !.dbgWrite = {}, !.dbgErr = FALSE,
                !.narInfo = IF outcome = "ok" THEN @ ELSE NoInfo]

ZeroStats ==
    [ narInfoRead |-> 0, narInfoWrite |-> 0, narRead |-> 0, narReadBytes |-> 0,
      narWrite |-> 0, narWriteAverted |-> 0, narWriteBytes |-> 0,
      narWriteCompressedBytes |-> 0 ]

\* The configurations checked: every setting both ways, and every pairing of
\* compression with the kind of backend.
Configs ==
    { [ compression |-> "none", writeNARListing |-> FALSE, writeDebugInfo |-> FALSE,
        secretKey |-> FALSE, diskCache |-> FALSE, backendKind |-> "sink",
        threads |-> {1} ],
      [ compression |-> "xz", writeNARListing |-> TRUE, writeDebugInfo |-> TRUE,
        secretKey |-> TRUE, diskCache |-> TRUE, backendKind |-> "sink",
        threads |-> {1} ],
      [ compression |-> "xz", writeNARListing |-> FALSE, writeDebugInfo |-> TRUE,
        secretKey |-> FALSE, diskCache |-> TRUE, backendKind |-> "async",
        threads |-> {1} ],
      [ compression |-> "none", writeNARListing |-> TRUE, writeDebugInfo |-> FALSE,
        secretKey |-> TRUE, diskCache |-> FALSE, backendKind |-> "async",
        threads |-> {1} ] }

\* wantMassQuery and priority before init(): nothing set by the cache.
DefaultSettings ==
    [wantMassQuery |-> "default", priority |-> [set |-> FALSE, value |-> 0]]

Init ==
    /\ cfg \in Configs
    /\ backend = EmptyBackend
    /\ tier1 = [p \in Paths |-> Unknown]
    /\ tier2 = [p \in Paths |-> Unknown]
    /\ stats = ZeroStats
    /\ thr = [t \in Threads |-> IdleThread]
    /\ calls = 0
    /\ envOps = 0
    /\ crashed = FALSE
    /\ ingested = [p \in Paths |-> <<>>]
    /\ tampered = FALSE
    /\ settings = DefaultSettings
    /\ NoDerivation

CanBegin(t) ==
    /\ ~crashed
    /\ t \in cfg.threads
    /\ thr[t].pc \in {"idle", "done"}
    /\ calls < MaxCalls

Running(t, pc) == ~crashed /\ t \in cfg.threads /\ thr[t].pc = pc

\* Where addToStore goes on after the listing.
AfterListing(c, nar) ==
    IF c.writeDebugInfo /\ BuildIds(nar) # {} THEN "debug" ELSE "blob"

\* Where addToStore goes on after the checks.
AfterChecks(c, nar) ==
    IF c.writeNARListing THEN "listing" ELSE AfterListing(c, nar)

BeginRecord(info, nar, repair, fail, wasValid) ==
    [IdleThread EXCEPT !.op = "addToStore", !.seq = calls + 1, !.path = info.path,
                       !.refs = info.references, !.claimed = info.narHash,
                       !.nar = nar, !.repair = repair, !.ioFail = fail,
                       !.wasValid = wasValid]

AfterBegin(c, rec, r) ==
    IF r.outcome = "none"
    THEN [rec EXCEPT !.pc = AfterChecks(c, rec.nar), !.narInfo = r.narInfo,
                     !.dbgTodo = BuildIds(rec.nar)]
    ELSE Returned([rec EXCEPT !.ref = r.ref], r.outcome, r.err)

ApplyChecks(t, rec, r) ==
    /\ tier1' = r.t1
    /\ tier2' = r.t2
    /\ stats' = [stats EXCEPT !.narInfoRead = @ + r.read]
    /\ crashed' = (r.outcome = "abort")
    /\ thr' = [thr EXCEPT ![t] = AfterBegin(cfg, rec, r)]

\* addToStore, lines 120-188: drain, validity, references, magic, hash,
\* compression.
AddToStoreBegin(t, info, nar, repair, fail) ==
    /\ CanBegin(t)
    /\ ApplyChecks(t,
          BeginRecord(info, nar, repair, fail,
                      isValidPath(cfg, backend, tier1, tier2, info.path)),
          AddToStoreChecks(cfg, backend, tier1, tier2, info, nar, repair, fail))
    /\ calls' = calls + 1
    /\ UNCHANGED <<others, cfg, backend, envOps, ingested, tampered>>

\* Lines 154-168: the .ls listing.
AddToStoreListing(t, fail) ==
    /\ Running(t, "listing")
    /\ LET rec == thr[t]
       IN  IF fail
           THEN /\ thr' = [thr EXCEPT ![t] = Returned(rec, "error", "upsertFile")]
                /\ UNCHANGED backend
           ELSE /\ backend' = upsertFile(backend, "ls", <<rec.path, "ls">>,
                                         Listing(rec.nar))
                /\ thr' = [thr EXCEPT ![t] =
                             [rec EXCEPT !.pc = AfterListing(cfg, rec.nar),
                                         !.written = @ \cup {"ls"}]]
    /\ UNCHANGED <<others, cfg, tier1, tier2, stats, calls, envOps, crashed, ingested, tampered>>

\* threadPool.process() returns, or rethrows a task's exception, once no
\* task is queued or running.
AfterDebug(rec) ==
    IF rec.dbgTodo # {} \/ rec.dbgWrite # {} THEN rec
    ELSE IF rec.dbgErr THEN Returned(rec, "error", "upsertFile")
    ELSE [rec EXCEPT !.pc = "blob"]

\* doFile up to `if (fileExists(key)) return;`
DebugExists(t, id) ==
    /\ Running(t, "debug")
    /\ id \in thr[t].dbgTodo
    /\ LET rec == [thr[t] EXCEPT !.dbgTodo = @ \ {id}]
       IN  thr' = [thr EXCEPT ![t] =
                    IF fileExists(backend, "debuginfo", id)
                    THEN AfterDebug(rec)
                    ELSE [rec EXCEPT !.dbgWrite = @ \cup {id}]]
    /\ UNCHANGED <<others, cfg, backend, tier1, tier2, stats, calls, envOps, crashed, ingested, tampered>>

\* doFile's upsertFile.  A task that throws makes the pool drop the tasks
\* still queued.
DebugWrite(t, id, fail) ==
    /\ Running(t, "debug")
    /\ id \in thr[t].dbgWrite
    /\ LET rec == [thr[t] EXCEPT !.dbgWrite = @ \ {id}]
       IN  IF fail
           THEN /\ thr' = [thr EXCEPT ![t] =
                             AfterDebug([rec EXCEPT !.dbgErr = TRUE, !.dbgTodo = {}])]
                /\ UNCHANGED backend
           ELSE /\ backend' = upsertFile(backend, "debuginfo", id,
                                         DebugLink(rec.narInfo.url, id))
                /\ thr' = [thr EXCEPT ![t] =
                             AfterDebug([rec EXCEPT !.written = @ \cup {"debuginfo"}])]
    /\ UNCHANGED <<others, cfg, tier1, tier2, stats, calls, envOps, crashed, ingested, tampered>>

\* The blob written whether it is there or not.
WriteBlobAlways(repair, exists) == TRUE

\* The blob written only on repair.
WriteBlobOnRepair(repair, exists) == repair /\ ~exists

\* `repair || !fileExists(narInfo->url)`
MustWriteBlob(repair, exists) == repair \/ ~exists

\* Lines 254-256.
CountWritten(st, rec) ==
    [st EXCEPT !.narWriteBytes = @ + Len(rec.nar),
               !.narWriteCompressedBytes = @ + rec.narInfo.fileSize]

\* Line 248: the test, and the counter of the branch taken.
AddToStoreBlobCheck(t) ==
    /\ Running(t, "blob")
    /\ LET rec == thr[t]
       IN  IF MustWriteBlob(rec.repair, fileExists(backend, "nar", rec.narInfo.url))
           THEN /\ stats' = [stats EXCEPT !.narWrite = @ + 1]
                /\ thr' = [thr EXCEPT ![t].pc = "blobwrite"]
           ELSE /\ stats' = CountWritten([stats EXCEPT !.narWriteAverted = @ + 1], rec)
                /\ thr' = [thr EXCEPT ![t].pc = "narinfo"]
    /\ UNCHANGED <<others, cfg, backend, tier1, tier2, calls, envOps, crashed, ingested, tampered>>

\* Line 250: the upsert of the compressed NAR.
AddToStoreBlobWrite(t, fail) ==
    /\ Running(t, "blobwrite")
    /\ LET rec == thr[t]
       IN  IF fail
           THEN /\ thr' = [thr EXCEPT ![t] = Returned(rec, "error", "upsertFile")]
                /\ UNCHANGED <<backend, stats>>
           ELSE /\ backend' = upsertFile(backend, "nar", rec.narInfo.url,
                                         compress(cfg.compression, rec.nar))
                /\ stats' = CountWritten(stats, rec)
                /\ thr' = [thr EXCEPT ![t] =
                             [rec EXCEPT !.pc = "narinfo",
                                         !.written = @ \cup {"nar"}]]
    /\ UNCHANGED <<others, cfg, tier1, tier2, calls, envOps, crashed, ingested, tampered>>

ApplyWrite(t, rec, ni, w) ==
    /\ backend' = w.b
    /\ tier1' = w.t1
    /\ tier2' = w.t2
    /\ IF w.ok
       THEN /\ stats' = [stats EXCEPT !.narInfoWrite = @ + 1]
            /\ thr' = [thr EXCEPT ![t] =
                         Returned([rec EXCEPT !.narInfo = ni,
                                              !.written = @ \cup {"narinfo"}],
                                  "ok", "")]
       ELSE /\ stats' = stats
            /\ thr' = [thr EXCEPT ![t] = Returned(rec, "error", "upsertFile")]

Signed(c, ni) == IF c.secretKey THEN Sign(ni) ELSE ni

\* Lines 259-263: sign, writeNarInfo, stats.narInfoWrite++.
AddToStoreNarInfo(t, fail) ==
    /\ Running(t, "narinfo")
    /\ ApplyWrite(t, thr[t], Signed(cfg, thr[t].narInfo),
                  writeNarInfo(cfg, backend, tier1, tier2,
                               Signed(cfg, thr[t].narInfo), fail))
    /\ ingested' = IF thr'[t].outcome = "ok"
                   THEN [ingested EXCEPT ![thr[t].path] = thr[t].nar]
                   ELSE ingested
    /\ UNCHANGED <<others, cfg, calls, envOps, crashed, tampered>>

AddToStore ==
    \E t \in Threads :
        \/ \E info \in Infos, nar \in Nars, repair \in BOOLEAN :
              AddToStoreBegin(t, info, nar, repair, FALSE)
        \/ \E fail \in BOOLEAN : AddToStoreListing(t, fail)
        \/ \E id \in thr[t].dbgTodo : DebugExists(t, id)
        \/ \E id \in thr[t].dbgWrite, fail \in BOOLEAN : DebugWrite(t, id, fail)
        \/ AddToStoreBlobCheck(t)
        \/ \E fail \in BOOLEAN : AddToStoreBlobWrite(t, fail)
        \/ \E fail \in BOOLEAN : AddToStoreNarInfo(t, fail)

---------------------------------------------------------------------------
(* narFromPath *)

NoStream(f, outcome, err) ==
    [sink |-> <<>>, finished |-> FALSE, reads |-> 0, bytes |-> 0, fetch |-> f.res,
     outcome |-> outcome, err |-> err]

Streamed(f, d) ==
    IF ~d.ok THEN NoStream(f, "error", "decompression")
    ELSE [sink |-> d.data, finished |-> TRUE, reads |-> 1, bytes |-> Len(d.data),
          fetch |-> f.res, outcome |-> "ok", err |-> ""]

\* narFromPath without its catch of NoSuchBinaryCacheFile.
StreamFetchedUncaught(info, f, ubCrash) ==
    IF f.res = "NoSuch" THEN NoStream(f, "error", "NoSuchBinaryCacheFile")
    ELSE IF f.res = "error" THEN NoStream(f, "error", "backend")
    ELSE IF f.res = "ub" /\ ubCrash THEN NoStream(f, "abort", "null dereference")
    ELSE Streamed(f, decompress(info.compression,
                                IF f.res = "data" THEN f.data[1] ELSE <<>>))

\* Lines 287-297 on the result `f` of getFile(info->url, *decompressor).
\* `ubCrash` picks what the undefined behaviour of getFile(path, sink) on an
\* empty pointer comes to: the process dies, or the sink is handed nothing
\* and the call goes on.
StreamFetched(info, f, ubCrash) ==
    IF f.res = "NoSuch" THEN NoStream(f, "SubstituteGone", "NoSuchBinaryCacheFile")
    ELSE IF f.res = "error" THEN NoStream(f, "error", "backend")
    ELSE IF f.res = "ub" /\ ubCrash THEN NoStream(f, "abort", "null dereference")
    ELSE Streamed(f, decompress(info.compression,
                                IF f.res = "data" THEN f.data[1] ELSE <<>>))

\* Lines 285-297 for a NarInfo found.  [outcome, err, fetch, sink, finished,
\* reads, bytes].
StreamNar(c, b, info, fail, ubCrash) ==
    StreamFetched(info, getFileSink(c, b, "nar", info.url, fail), ubCrash)

ApplyStream(t, rec, q, r) ==
    /\ thr' = [thr EXCEPT ![t] =
                 [Returned(rec, r.outcome, r.err)
                    EXCEPT !.sink = r.sink, !.finished = r.finished,
                           !.fetch = r.fetch, !.narInfo = q.info]]
    /\ stats' = [stats EXCEPT !.narInfoRead = @ + q.read,
                              !.narRead = @ + r.reads,
                              !.narReadBytes = @ + r.bytes]
    /\ crashed' = (r.outcome = "abort")

ApplyQuery(t, rec, q, failNar, ubCrash) ==
    /\ tier1' = q.t1
    /\ tier2' = q.t2
    /\ IF q.res # "value"
       THEN /\ thr' = [thr EXCEPT ![t] =
                         Returned(rec, IF q.res = "InvalidPath" THEN "InvalidPath"
                                       ELSE "error", "queryPathInfo")]
            /\ stats' = [stats EXCEPT !.narInfoRead = @ + q.read]
            /\ crashed' = crashed
       ELSE ApplyStream(t, rec, q, StreamNar(cfg, backend, q.info, failNar, ubCrash))

NarFromPath(t, p, failInfo, failNar, ubCrash) ==
    /\ CanBegin(t)
    /\ ApplyQuery(t, [IdleThread EXCEPT !.op = "narFromPath", !.seq = calls + 1,
                                        !.path = p,
                                        !.ioFail = failInfo \/ failNar],
                  queryPathInfo(cfg, backend, tier1, tier2, p, failInfo),
                  failNar, ubCrash)
    /\ calls' = calls + 1
    /\ UNCHANGED <<others, cfg, backend, envOps, ingested, tampered>>

---------------------------------------------------------------------------
(* queryPathInfoUncached, called with a callback of the caller's *)

ApplyUncached(t, rec, u) ==
    /\ thr' = [thr EXCEPT ![t] =
                 [Returned(rec, IF u.terminated THEN "abort" ELSE "returned", "")
                    EXCEPT !.cb = u.cb]]
    /\ stats' = [stats EXCEPT !.narInfoRead = @ + u.read]
    /\ crashed' = u.terminated

QueryPathInfoUncached(t, p, fail, contThrows, escapes) ==
    /\ CanBegin(t)
    /\ ApplyUncached(t, [IdleThread EXCEPT !.op = "queryPathInfoUncached",
                                           !.seq = calls + 1, !.path = p,
                                           !.ioFail = fail],
                     queryPathInfoUncached(cfg, backend, p, fail, contThrows, escapes))
    /\ calls' = calls + 1
    /\ UNCHANGED <<others, cfg, backend, tier1, tier2, envOps, ingested, tampered>>

---------------------------------------------------------------------------
(* The environment: other parties with access to the backend *)

\* What the callers have seen of returned calls is forgotten when the
\* environment moves: "immediately after" ends there.
Forget == [t \in Threads |-> IF thr[t].pc = "done" THEN IdleThread ELSE thr[t]]

\* A blob is deleted (garbage-collected) behind the store's back.
ExternalDelete(url) ==
    /\ ~crashed
    /\ \A t \in Threads : thr[t].pc \in {"idle", "done"}
    /\ envOps < MaxEnv
    /\ url \in DOMAIN backend.nar
    /\ backend' = [backend EXCEPT !.nar = [x \in DOMAIN @ \ {url} |-> @[x]]]
    /\ envOps' = envOps + 1
    /\ tampered' = TRUE
    /\ thr' = Forget
    /\ UNCHANGED <<others, cfg, tier1, tier2, stats, calls, crashed, ingested>>

\* A .narinfo that does not parse is put under a path's key.
ExternalCorrupt(p) ==
    /\ ~crashed
    /\ \A t \in Threads : thr[t].pc \in {"idle", "done"}
    /\ envOps < MaxEnv
    /\ backend' = upsertFile(backend, "narinfo", narInfoFileFor(p), CorruptText)
    /\ envOps' = envOps + 1
    /\ tampered' = TRUE
    /\ thr' = Forget
    /\ UNCHANGED <<others, cfg, tier1, tier2, stats, calls, crashed, ingested>>

\* An entry of a cache tier expires or is evicted (both tiers are advisory:
\* an LRU with TTLs, and a disk cache with TTLs).
CacheExpire(tier, p) ==
    /\ ~crashed
    /\ envOps < MaxEnv
    /\ \A t \in Threads : thr[t].pc \in {"idle", "done"}
    /\ IF tier = 1
       THEN tier1[p] # Unknown /\ tier1' = [tier1 EXCEPT ![p] = Unknown]
                               /\ tier2' = tier2
       ELSE tier2[p] # Unknown /\ tier2' = [tier2 EXCEPT ![p] = Unknown]
                               /\ tier1' = tier1
    /\ envOps' = envOps + 1
    /\ thr' = Forget
    /\ UNCHANGED <<others, cfg, backend, stats, calls, crashed, ingested, tampered>>

Environment ==
    \/ \E url \in DOMAIN backend.nar : ExternalDelete(url)
    \/ \E p \in Paths : ExternalCorrupt(p)
    \/ \E tier \in {1, 2}, p \in Paths : CacheExpire(tier, p)

Next ==
    \/ AddToStore
    \/ \E t \in Threads, p \in Paths, failInfo \in BOOLEAN, failNar \in BOOLEAN,
          ubCrash \in BOOLEAN :
          NarFromPath(t, p, failInfo, failNar, ubCrash)
    \/ \E t \in Threads, p \in Paths, fail \in BOOLEAN, contThrows \in BOOLEAN,
          escapes \in BOOLEAN :
          QueryPathInfoUncached(t, p, fail, contThrows, escapes)
    \/ Environment

Spec == Init /\ [][Next]_vars

---------------------------------------------------------------------------
(* getFile(path) and init() *)

\* Text is a sequence of characters.
CacheInfoFile == "nix-cache-info"

\* storeDir, and the directory of some other store.
StoreDir == <<"/", "n">>

OtherDir == <<"/", "m">>

KStoreDir == <<"S", "t", "o", "r", "e", "D", "i", "r">>

KWantMassQuery == <<"W", "a", "n", "t", "M", "a", "s", "s", "Q", "u", "e", "r", "y">>

KPriority == <<"P", "r", "i", "o", "r", "i", "t", "y">>

Whitespace == {" ", "\n", "\r", "\t"}

Digits == <<"0", "1", "2", "3", "4", "5", "6", "7", "8", "9">>

IsDigit(ch) == \E i \in 1..Len(Digits) : Digits[i] = ch

DigitValue(ch) == (CHOOSE i \in 1..Len(Digits) : Digits[i] = ch) - 1

\* s.find(ch): the first position of ch in s, 0 for npos.
Find(str, ch) ==
    IF \E i \in 1..Len(str) : str[i] = ch
    THEN CHOOSE i \in 1..Len(str) : str[i] = ch /\ \A j \in 1..(i - 1) : str[j] # ch
    ELSE 0

\* trim(s): s without its leading and trailing whitespace.
trim(str) ==
    LET keep == { i \in 1..Len(str) : str[i] \notin Whitespace }
    IN  IF keep = {} THEN <<>>
        ELSE SubSeq(str, CHOOSE i \in keep : \A j \in keep : i <= j,
                         CHOOSE i \in keep : \A j \in keep : i >= j)

\* tokenizeString<Strings>(s, "\n"): the non-empty pieces between newlines.
RECURSIVE tokenizeString(_)
tokenizeString(str) ==
    IF str = <<>> THEN <<>>
    ELSE IF str[1] = "\n" THEN tokenizeString(Tail(str))
    ELSE IF Find(str, "\n") = 0 THEN <<str>>
    ELSE <<SubSeq(str, 1, Find(str, "\n") - 1)>>
         \o tokenizeString(SubSeq(str, Find(str, "\n") + 1, Len(str)))

\* The value of a string of digits.
RECURSIVE Decimal(_)
Decimal(ds) ==
    IF ds = <<>> THEN 0
    ELSE 10 * Decimal(SubSeq(ds, 1, Len(ds) - 1)) + DigitValue(ds[Len(ds)])

\* std::stoi(value): the integer its leading digits spell, whatever follows
\* them; std::invalid_argument when it does not begin with a digit.
\* [ok, n].  (The values modelled have no sign.)
stoi(value) ==
    LET n == IF \E i \in 1..Len(value) : ~IsDigit(value[i])
             THEN (CHOOSE i \in 1..Len(value) :
                      ~IsDigit(value[i]) /\ \A j \in 1..(i - 1) : IsDigit(value[j])) - 1
             ELSE Len(value)
    IN  IF n = 0 THEN [ok |-> FALSE, n |-> 0]
        ELSE [ok |-> TRUE, n |-> Decimal(SubSeq(value, 1, n))]

\* What init() writes when nix-cache-info is absent.
OwnCacheInfo == KStoreDir \o <<":", " ">> \o StoreDir \o <<"\n">>

\* init() without its comparison of StoreDir with storeDir.
InitLineAnyStore(st, name, value) ==
    IF name = KWantMassQuery
    THEN [ok |-> TRUE, err |-> "",
          st |-> [st EXCEPT !.wantMassQuery =
                                IF value = <<"1">> THEN "true" ELSE "false"]]
    ELSE IF name = KPriority
    THEN IF stoi(value).ok
         THEN [ok |-> TRUE, err |-> "",
               st |-> [st EXCEPT !.priority = [set |-> TRUE, value |-> stoi(value).n]]]
         ELSE [ok |-> FALSE, err |-> "std::invalid_argument", st |-> st]
    ELSE [ok |-> TRUE, err |-> "", st |-> st]

\* One line of nix-cache-info on the settings `st`: [ok, err, st].
InitLine(st, name, value) ==
    IF name = KStoreDir
    THEN IF value # StoreDir
         THEN [ok |-> FALSE, err |-> "binary cache is for another store prefix",
               st |-> st]
         ELSE [ok |-> TRUE, err |-> "", st |-> st]
    ELSE IF name = KWantMassQuery
    THEN [ok |-> TRUE, err |-> "",
          st |-> [st EXCEPT !.wantMassQuery =
                                IF value = <<"1">> THEN "true" ELSE "false"]]
    ELSE IF name = KPriority
    THEN IF stoi(value).ok
         THEN [ok |-> TRUE, err |-> "",
               st |-> [st EXCEPT !.priority = [set |-> TRUE, value |-> stoi(value).n]]]
         ELSE [ok |-> FALSE, err |-> "std::invalid_argument", st |-> st]
    ELSE [ok |-> TRUE, err |-> "", st |-> st]

\* The loop of init() over the lines from the i-th on.
RECURSIVE InitLines(_, _, _)

InitLineAt(st, lines, i, colon) ==
    IF colon = 0 THEN InitLines(st, lines, i + 1)
    ELSE LET r == InitLine(st, SubSeq(lines[i], 1, colon - 1),
                           trim(SubSeq(lines[i], colon + 1, Len(lines[i]))))
         IN  IF r.ok THEN InitLines(r.st, lines, i + 1) ELSE r

InitLines(st, lines, i) ==
    IF i > Len(lines) THEN [ok |-> TRUE, err |-> "", st |-> st]
    ELSE InitLineAt(st, lines, i, Find(lines[i], ":"))

\* nix-cache-info files another party may have left in the backend: lines
\* of every kind init() distinguishes, in both orders around a foreign
\* StoreDir.
Line(name, value) == name \o <<":", " ">> \o value \o <<"\n">>

CacheInfoTexts ==
    { Line(KStoreDir, StoreDir) \o Line(KWantMassQuery, <<"1">>)
          \o Line(KPriority, <<"4", "0">>),
      Line(KStoreDir, <<" ">> \o StoreDir \o <<"\t">>)
          \o Line(KWantMassQuery, <<"0">>) \o <<"j", "u", "n", "k", "\n">>,
      Line(KWantMassQuery, <<"1", "1">>) \o Line(<<"F", "o", "o">>, <<"1">>)
          \o <<"\n">> \o Line(KPriority, <<"7", "x">>),
      Line(KWantMassQuery, <<"1">>) \o Line(KStoreDir, OtherDir),
      Line(KStoreDir, OtherDir) \o Line(KPriority, <<"3">>),
      Line(KStoreDir, StoreDir) \o Line(KPriority, <<"x">>),
      Line(KPriority, <<"x">>) \o Line(KStoreDir, OtherDir),
      <<" ">> \o Line(KStoreDir, OtherDir) }

\* What the undefined behaviour of getFile(path, sink) on an empty pointer
\* comes to for a caller of getFile(path) that goes on: a string that is not
\* null and holds nothing.
AsReturned(f) == IF f.res = "ub" THEN [res |-> "data", data |-> <<<<>>>>] ELSE f

\* getFile(path), lines 83-92, called for a key of the top level.
ApplyGetFile(t, rec, f, ubCrash) ==
    IF f.res = "ub" /\ ubCrash
    THEN /\ thr' = [thr EXCEPT ![t] =
                      [Returned(rec, "abort", "null dereference") EXCEPT !.fetch = f.res]]
         /\ crashed' = TRUE
    ELSE /\ thr' = [thr EXCEPT ![t] =
                      [Returned(rec, IF f.res = "error" THEN "error" ELSE "ok",
                                IF f.res = "error" THEN "backend" ELSE "")
                         EXCEPT !.fetch = f.res,
                                !.sink = IF AsReturned(f).res = "data"
                                         THEN AsReturned(f).data[1] ELSE <<>>,
                                !.finished = (AsReturned(f).res = "data")]]
         /\ crashed' = crashed

GetFile(t, key, fail, ubCrash) ==
    /\ CanBegin(t)
    /\ ApplyGetFile(t, [IdleThread EXCEPT !.op = "getFile", !.seq = calls + 1,
                                          !.path = key, !.ioFail = fail,
                                          !.wasValid = fileExists(backend, "top", key)],
                    getFileSync(cfg, backend, "top", key, fail), ubCrash)
    /\ calls' = calls + 1
    /\ UNCHANGED <<others, cfg, backend, tier1, tier2, stats, envOps, ingested,
                   tampered>>

\* init() on the result `f` of getFile(cacheInfoFile), lines 39-57.
ApplyInit(t, rec, f, r, failPut) ==
    IF f.res = "error"
    THEN /\ thr' = [thr EXCEPT ![t] = Returned(rec, "error", "backend")]
         /\ UNCHANGED <<backend, settings>>
    ELSE IF f.res = "null"
    THEN /\ settings' = settings
         /\ IF failPut
            THEN /\ thr' = [thr EXCEPT ![t] = Returned(rec, "error", "upsertFile")]
                 /\ backend' = backend
            ELSE /\ thr' = [thr EXCEPT ![t] =
                              Returned([rec EXCEPT !.written = {CacheInfoFile}],
                                       "ok", "")]
                 /\ backend' = upsertFile(backend, "top", CacheInfoFile, OwnCacheInfo)
    ELSE /\ backend' = backend
         /\ settings' = r.st
         /\ thr' = [thr EXCEPT ![t] =
                      Returned(rec, IF r.ok THEN "ok" ELSE "error", r.err)]

init(t, failGet, failPut, ubCrash) ==
    /\ CanBegin(t)
    /\ LET f == getFileSync(cfg, backend, "top", CacheInfoFile, failGet)
           rec == [IdleThread EXCEPT !.op = "init", !.seq = calls + 1,
                                     !.path = CacheInfoFile,
                                     !.ioFail = failGet \/ failPut,
                                     !.wasValid = fileExists(backend, "top", CacheInfoFile),
                                     !.fetch = f.res]
       IN  IF f.res = "ub" /\ ubCrash
           THEN /\ thr' = [thr EXCEPT ![t] = Returned(rec, "abort", "null dereference")]
                /\ crashed' = TRUE
                /\ UNCHANGED <<backend, settings>>
           ELSE /\ crashed' = crashed
                /\ ApplyInit(t, rec, AsReturned(f),
                             InitLines(settings,
                                       tokenizeString(IF AsReturned(f).res = "data"
                                                      THEN AsReturned(f).data[1]
                                                      ELSE <<>>), 1),
                             failPut)
    /\ calls' = calls + 1
    /\ UNCHANGED <<drvVars, cfg, tier1, tier2, stats, envOps, ingested, tampered>>

\* Another party puts a nix-cache-info of its own into the backend.
ExternalCacheInfo(text) ==
    /\ ~crashed
    /\ \A t \in Threads : thr[t].pc \in {"idle", "done"}
    /\ envOps < MaxEnv
    /\ backend' = upsertFile(backend, "top", CacheInfoFile, text)
    /\ envOps' = envOps + 1
    /\ tampered' = TRUE
    /\ thr' = Forget
    /\ UNCHANGED <<others, cfg, tier1, tier2, stats, calls, crashed, ingested>>

NextFiles ==
    \/ \E t \in Threads, fail \in BOOLEAN, ubCrash \in BOOLEAN :
          GetFile(t, CacheInfoFile, fail, ubCrash)
    \/ \E t \in Threads, failGet \in BOOLEAN, failPut \in BOOLEAN,
          ubCrash \in BOOLEAN :
          init(t, failGet, failPut, ubCrash)
    \/ \E text \in CacheInfoTexts : ExternalCacheInfo(text)

\* The store's top-level files: init() and getFile(path).
SpecFiles == Init /\ [][NextFiles]_vars

---------------------------------------------------------------------------
(* addSignatures *)

\* Signatures other keys have made of a path.
SigA == <<"key-a", <<>>>>

SigB == <<"key-b", <<>>>>

SigSets == {{SigA}, {SigB}, {SigA, SigB}}

\* The path and the NAR of the store addSignatures is run on. The other
\* path is not valid there.
FirstPath == PathOrder[1]

FirstNar == NarMagic \o <<1>>

FirstNarInfo(c) ==
    Signed(c, MakeNarInfo(c, [NoInfo EXCEPT !.path = FirstPath], FirstNar))

\* The backend after addToStore of FirstNar for FirstPath on an empty one.
FirstBackend(c) ==
    LET withLs == IF c.writeNARListing
                  THEN upsertFile(EmptyBackend, "ls", <<FirstPath, "ls">>,
                                  Listing(FirstNar))
                  ELSE EmptyBackend
        withNar == upsertFile(withLs, "nar", FirstNarInfo(c).url,
                              compress(c.compression, FirstNar))
    IN  upsertFile(withNar, "narinfo", narInfoFileFor(FirstPath),
                   to_string(FirstNarInfo(c)))

\* The counters after that addToStore.
FirstStats(c) ==
    [ZeroStats EXCEPT !.narWrite = 1, !.narInfoWrite = 1,
                      !.narWriteBytes = Len(FirstNar),
                      !.narWriteCompressedBytes = FirstNarInfo(c).fileSize]

\* Every configuration, with one calling thread and with two.
RaceConfigs ==
    { [c EXCEPT !.threads = th] : c \in Configs, th \in {{1}, {1, 2}} }

\* The store after its first addToStore, in the process that made it
\* (`warm`: caches and counters as the call left them) or in a later
\* process (caches empty, counters zero).
InitSigs ==
    /\ cfg \in RaceConfigs
    /\ backend = FirstBackend(cfg)
    /\ \E warm \in BOOLEAN :
          /\ tier1 = [p \in Paths |->
                        IF warm /\ p = FirstPath THEN Positive(FirstNarInfo(cfg))
                        ELSE Unknown]
          /\ tier2 = [p \in Paths |->
                        IF warm /\ cfg.diskCache /\ p = FirstPath
                        THEN Positive(FirstNarInfo(cfg)) ELSE Unknown]
          /\ stats = IF warm THEN FirstStats(cfg) ELSE ZeroStats
    /\ thr = [t \in Threads |-> IdleThread]
    /\ calls = 0
    /\ envOps = 0
    /\ crashed = FALSE
    /\ ingested = [p \in Paths |-> IF p = FirstPath THEN FirstNar ELSE <<>>]
    /\ tampered = FALSE
    /\ settings = DefaultSettings
    /\ NoDerivation

\* The signatures replaced instead of inserted.
ReplaceSigs(ni, sigs) == [ni EXCEPT !.sigs = sigs]

\* No signature inserted.
KeepSigs(ni, sigs) == ni

\* `narInfo->sigs.insert(sigs.begin(), sigs.end())`
InsertSigs(ni, sigs) == [ni EXCEPT !.sigs = @ \cup sigs]

\* What the backend holds for p when the call begins (NoInfo when nothing).
StoredBefore(p) ==
    IF fileExists(backend, "narinfo", narInfoFileFor(p))
    THEN ParseNarInfo(backend.narinfo[narInfoFileFor(p)]).info
    ELSE NoInfo

ApplySigQuery(t, rec, q, sigs) ==
    /\ tier1' = q.t1
    /\ tier2' = q.t2
    /\ stats' = [stats EXCEPT !.narInfoRead = @ + q.read]
    /\ thr' = [thr EXCEPT ![t] =
                 IF q.res = "value"
                 THEN [rec EXCEPT !.pc = "sigwrite",
                                  !.narInfo = InsertSigs(q.info, sigs)]
                 ELSE Returned(rec, IF q.res = "InvalidPath" THEN "InvalidPath"
                                    ELSE "error", "queryPathInfo")]

\* Lines 387-389: queryPathInfo, copy, insert.
AddSignaturesBegin(t, p, sigs) ==
    /\ CanBegin(t)
    /\ ApplySigQuery(t, [IdleThread EXCEPT !.op = "addSignatures",
                                           !.seq = calls + 1, !.path = p,
                                           !.sigs = sigs,
                                           !.before = StoredBefore(p),
                                           !.wasValid = isValidPath(cfg, backend,
                                                                    tier1, tier2, p)],
                     queryPathInfo(cfg, backend, tier1, tier2, p, FALSE), sigs)
    /\ calls' = calls + 1
    /\ UNCHANGED <<others, cfg, backend, envOps, crashed, ingested, tampered>>

\* writeNarInfo going on to the caches with nothing upserted.
UpsertSkipped(t, fail) ==
    /\ Running(t, "sigwrite")
    /\ thr' = [thr EXCEPT ![t].pc = "sigcache"]
    /\ UNCHANGED <<others, cfg, backend, tier1, tier2, stats, calls, envOps,
                   crashed, ingested, tampered>>

\* writeNarInfo, line 103: the upsert of the .narinfo.
AddSignaturesUpsert(t, fail) ==
    /\ Running(t, "sigwrite")
    /\ IF fail
       THEN /\ thr' = [thr EXCEPT ![t] = Returned(thr[t], "error", "upsertFile")]
            /\ backend' = backend
       ELSE /\ thr' = [thr EXCEPT ![t] =
                         [thr[t] EXCEPT !.pc = "sigcache",
                                        !.written = @ \cup {"narinfo"}]]
            /\ backend' = upsertFile(backend, "narinfo",
                                     narInfoFileFor(thr[t].path),
                                     to_string(thr[t].narInfo))
    /\ UNCHANGED <<others, cfg, tier1, tier2, stats, calls, envOps, crashed,
                   ingested, tampered>>

\* writeNarInfo, lines 107-110: the entry of the in-process cache.
AddSignaturesCache(t) ==
    /\ Running(t, "sigcache")
    /\ tier1' = [tier1 EXCEPT ![thr[t].path] = Positive(thr[t].narInfo)]
    /\ thr' = [thr EXCEPT ![t] =
                 IF cfg.diskCache THEN [thr[t] EXCEPT !.pc = "sigdisk"]
                 ELSE Returned(thr[t], "ok", "")]
    /\ UNCHANGED <<others, cfg, backend, tier2, stats, calls, envOps, crashed,
                   ingested, tampered>>

\* writeNarInfo, lines 112-113: the entry of the disk cache.
AddSignaturesDisk(t) ==
    /\ Running(t, "sigdisk")
    /\ tier2' = [tier2 EXCEPT ![thr[t].path] = Positive(thr[t].narInfo)]
    /\ thr' = [thr EXCEPT ![t] = Returned(thr[t], "ok", "")]
    /\ UNCHANGED <<others, cfg, backend, tier1, stats, calls, envOps, crashed,
                   ingested, tampered>>

NextSigs ==
    \/ \E t \in Threads, p \in Paths, sigs \in SigSets : AddSignaturesBegin(t, p, sigs)
    \/ \E t \in Threads, fail \in BOOLEAN : AddSignaturesUpsert(t, fail)
    \/ \E t \in Threads : AddSignaturesCache(t)
    \/ \E t \in Threads : AddSignaturesDisk(t)
    \/ \E tier \in {1, 2}, p \in Paths : CacheExpire(tier, p)

\* addSignatures on a store that holds one path, from one thread or two.
SpecSigs == InitSigs /\ [][NextSigs]_vars

---------------------------------------------------------------------------
(* Two addToStore calls for one path *)

\* The configurations, each without its signing key and with two calling
\* threads.
UnsignedConfigs ==
    { [c EXCEPT !.secretKey = FALSE, !.threads = {1, 2}] : c \in Configs }

InitRace ==
    /\ cfg \in UnsignedConfigs
    /\ backend = EmptyBackend
    /\ tier1 = [p \in Paths |-> Unknown]
    /\ tier2 = [p \in Paths |-> Unknown]
    /\ stats = ZeroStats
    /\ thr = [t \in Threads |-> IdleThread]
    /\ calls = 0
    /\ envOps = 0
    /\ crashed = FALSE
    /\ ingested = [p \in Paths |-> <<>>]
    /\ tampered = FALSE
    /\ settings = DefaultSettings
    /\ NoDerivation

\* No call made so far had other arguments.
SameAsEarlier(info, nar) ==
    \A u \in Threads :
        thr[u].op = "addToStore" =>
            /\ thr[u].path = info.path
            /\ thr[u].refs = info.references
            /\ thr[u].claimed = info.narHash
            /\ thr[u].nar = nar

\* The steps of addToStore, repair off, no upsertFile failing, every call
\* with the info and the NAR of the first, the info claiming no hash or the
\* hash of the NAR.
NextRace ==
    \E t \in Threads :
        \/ \E info \in { i \in Infos : i.references = {} }, nar \in ValidNars :
              /\ info.narHash \in {NoHash, hashString(nar)}
              /\ SameAsEarlier(info, nar)
              /\ AddToStoreBegin(t, info, nar, FALSE, FALSE)
        \/ AddToStoreListing(t, FALSE)
        \/ \E id \in thr[t].dbgTodo : DebugExists(t, id)
        \/ \E id \in thr[t].dbgWrite : DebugWrite(t, id, FALSE)
        \/ AddToStoreBlobCheck(t)
        \/ AddToStoreBlobWrite(t, FALSE)
        \/ AddToStoreNarInfo(t, FALSE)

\* Calls of addToStore for one path with one content, from two threads.
SpecRace == InitRace /\ [][NextRace]_vars

---------------------------------------------------------------------------
(* derivations.cc: the values *)

\* The characters that occur, in the order of their codes.
CharOrder ==
    << "\t", "\n", "\r", " ", "\"", "(", ")", ",", "-", "/",
       "0", "1", "2", "3", "4", "5", "6", "7", "8", "9", ":",
       "D", "[", "\\", "]",
       "a", "b", "c", "d", "e", "f", "h", "i", "k", "m", "n", "o", "r", "s",
       "t", "u", "v", "x", "y", "{", "}" >>

Code(ch) == CHOOSE i \in 1..Len(CharOrder) : CharOrder[i] = ch

\* The positions at which two strings differ.
Differing(a, b) ==
    { i \in 1..Len(a) : i <= Len(b) /\ a[i] # b[i] }

\* operator< of std::string.
Less(a, b) ==
    IF Differing(a, b) = {}
    THEN Len(a) < Len(b)
    ELSE LET i == CHOOSE x \in Differing(a, b) :
                      \A y \in Differing(a, b) : x <= y
         IN  Code(a[i]) < Code(b[i])

RECURSIVE Ordered(_)

\* The members of a std::set<string>, or the keys of a std::map, in the
\* order of iteration.
Ordered(S) ==
    IF S = {} THEN <<>>
    ELSE LET m == CHOOSE x \in S : \A y \in S \ {x} : Less(x, y)
         IN  <<m>> \o Ordered(S \ {m})

\* A StorePath is the base name of a path in the store: a hash part and a
\* name.
BaseName(p) == <<p.hashPart, "-">> \o p.name

\* store.printStorePath(p): storeDir + "/" + base name.
printStorePath(p) == StoreDir \o <<"/">> \o BaseName(p)

\* The store path that prints as `text`.
PathOf(text) ==
    [ hashPart |-> text[Len(StoreDir) + 2],
      name |-> SubSeq(text, Len(StoreDir) + 4, Len(text)) ]

\* store.parseStorePath(text): [ok, path]; BadStorePath for a text that is
\* not storeDir, "/", a hash part, "-" and a name.
parseStorePath(text) ==
    IF /\ Len(text) >= Len(StoreDir) + 4
       /\ SubSeq(text, 1, Len(StoreDir)) = StoreDir
       /\ text[Len(StoreDir) + 1] = "/"
       /\ text[Len(StoreDir) + 3] = "-"
    THEN [ok |-> TRUE, path |-> PathOf(text)]
    ELSE [ok |-> FALSE, path |-> [hashPart |-> "", name |-> <<>>]]

\* Operators of StorePath compare base names.
OrderedPaths(S) == Ordered({ printStorePath(p) : p \in S })

NoPath == [hashPart |-> "", name |-> <<>>]

\* The names of the hash types.
HashTypeNames ==
    [ sha256 |-> <<"s", "h", "a", "2", "5", "6">>,
      md5 |-> <<"m", "d", "5">> ]

printHashType(ht) == HashTypeNames[ht]

\* parseHashType(s): [ok, type]; an unknown name is an error.
parseHashType(s) ==
    IF \E ht \in DOMAIN HashTypeNames : HashTypeNames[ht] = s
    THEN [ok |-> TRUE,
          type |-> CHOOSE ht \in DOMAIN HashTypeNames : HashTypeNames[ht] = s]
    ELSE [ok |-> FALSE, type |-> ""]

\* hash.to_string(Base16, false) of the hash given for a fixed output: the
\* digest is modelled as a number below ten, its text as one digit.
Base16(digest) == <<Digits[digest + 1]>>

\* Hash(s, hashType): [ok, digest]; BadHash for a text that is no digest.
ParseHash(s) ==
    IF Len(s) = 1 /\ IsDigit(s[1])
    THEN [ok |-> TRUE, digest |-> DigitValue(s[1])]
    ELSE [ok |-> FALSE, digest |-> 0]

\* DerivationOutputIntensional and DerivationOutputFixed.
Intensional(p) ==
    [ kind |-> "intensional", path |-> p, method |-> "", hashType |-> "",
      digest |-> 0 ]

Fixed(method, ht, digest) ==
    [ kind |-> "fixed", path |-> NoPath, method |-> method, hashType |-> ht,
      digest |-> digest ]

\* FixedOutputHash::printMethodAlgo
printMethodAlgo(o) ==
    (IF o.method = "recursive" THEN <<"r", ":">> ELSE <<>>)
        \o printHashType(o.hashType)

\* store.makeFixedOutputPath(method, hash, name): a path that is a function
\* of the three, with a hash part no other path has.
makeFixedOutputPath(o, name) ==
    [ hashPart |-> "f",
      name |-> printMethodAlgo(o) \o <<"-">> \o Base16(o.digest) \o <<"-">> \o name ]

\* DerivationOutput::path, lines 15-25.
OutputPath(o, drvName) ==
    IF o.kind = "intensional" THEN o.path ELSE makeFixedOutputPath(o, drvName)

---------------------------------------------------------------------------
(* derivations.cc: unparse *)

RECURSIVE Escaped(_)

\* The body of printString, lines 233-238.
Escaped(s) ==
    IF s = <<>> THEN <<>>
    ELSE (IF s[1] = "\"" \/ s[1] = "\\" THEN <<"\\", s[1]>>
          ELSE IF s[1] = "\n" THEN <<"\\", "n">>
          ELSE IF s[1] = "\r" THEN <<"\\", "r">>
          ELSE IF s[1] = "\t" THEN <<"\\", "t">>
          ELSE <<s[1]>>) \o Escaped(Tail(s))

\* printString, lines 228-241.
printString(s) == <<"\"">> \o Escaped(s) \o <<"\"">>

\* printUnquotedString, lines 244-249.
printUnquotedString(s) == <<"\"">> \o s \o <<"\"">>

RECURSIVE Separated(_)

\* The texts of a list, a ',' before each but the first.
Separated(items) ==
    IF items = <<>> THEN <<>>
    ELSE IF Len(items) = 1 THEN items[1]
    ELSE items[1] \o <<",">> \o Separated(Tail(items))

Bracketed(items) == <<"[">> \o Separated(items) \o <<"]">>

\* printStrings, lines 253-262.
printStrings(strs) == Bracketed([i \in 1..Len(strs) |-> printString(strs[i])])

\* printUnquotedStrings, lines 266-275.
printUnquotedStrings(strs) ==
    Bracketed([i \in 1..Len(strs) |-> printUnquotedString(strs[i])])

\* Lines 286-298: one output.
UnparseOutput(d, id, maskOutputs) ==
    <<"(">> \o printUnquotedString(id)
    \o <<",">> \o printUnquotedString(
                      IF maskOutputs THEN <<>>
                      ELSE printStorePath(OutputPath(d.outputs[id], d.name)))
    \o (IF d.outputs[id].kind = "fixed"
        THEN <<",">> \o printUnquotedString(printMethodAlgo(d.outputs[id]))
             \o <<",">> \o printUnquotedString(Base16(d.outputs[id].digest))
        ELSE <<",">> \o printUnquotedString(<<>>)
             \o <<",">> \o printUnquotedString(<<>>))
    \o <<")">>

\* Lines 302-316: one input derivation, `key` being its path as printed or
\* the text put in its place.
UnparseInput(key, outs) ==
    <<"(">> \o printUnquotedString(key)
    \o <<",">> \o printUnquotedStrings(Ordered(outs)) \o <<")">>

\* Lines 328-333: one environment variable.
UnparseEnv(d, key, maskOutputs) ==
    <<"(">> \o printString(key)
    \o <<",">> \o printString(IF maskOutputs /\ key \in DOMAIN d.outputs
                              THEN <<>> ELSE d.env[key])
    \o <<")">>

\* No actualInputs given.
NoInputs == [given |-> FALSE, map |-> <<>>]

\* The elements of a sequence, each through a function.
Each(seq, f) == [i \in 1..Len(seq) |-> f[seq[i]]]

\* Derivation::unparse, lines 278-338.  actualInputs is [given, map].
unparse(d, maskOutputs, actualInputs) ==
    <<"D", "e", "r", "i", "v", "e", "(">>
    \o Bracketed(Each(Ordered(DOMAIN d.outputs),
                      [id \in DOMAIN d.outputs |->
                          UnparseOutput(d, id, maskOutputs)]))
    \o <<",">>
    \o (IF actualInputs.given
        THEN Bracketed(Each(Ordered(DOMAIN actualInputs.map),
                            [k \in DOMAIN actualInputs.map |->
                                UnparseInput(k, actualInputs.map[k])]))
        ELSE Bracketed(Each(OrderedPaths(DOMAIN d.inputDrvs),
                            [k \in { printStorePath(p) : p \in DOMAIN d.inputDrvs } |->
                                UnparseInput(k, d.inputDrvs[PathOf(k)])])))
    \o <<",">> \o printUnquotedStrings(OrderedPaths(d.inputSrcs))
    \o <<",">> \o printUnquotedString(d.platform)
    \o <<",">> \o printString(d.builder)
    \o <<",">> \o printStrings(d.args)
    \o <<",">>
    \o Bracketed(Each(Ordered(DOMAIN d.env),
                      [k \in DOMAIN d.env |-> UnparseEnv(d, k, maskOutputs)]))
    \o <<")">>

---------------------------------------------------------------------------
(* derivations.cc: parseDerivation *)

\* What a parsing function returns: the error thrown ("" for none), the
\* position of the stream after it, and its value.
Parsed(pos, val) == [err |-> "", pos |-> pos, val |-> val]

Thrown(err, pos) == [err |-> err, pos |-> pos, val |-> <<>>]

Rethrown(r) == Thrown(r.err, r.pos)

\* expect, lines 60-66.  `str.read` past the end of the text leaves the
\* rest of s2 as it was on the stack: `stale` says that those bytes happen to
\* be the ones expected.
expect(s, pos, lit, stale) ==
    IF pos + Len(lit) - 1 <= Len(s)
    THEN IF SubSeq(s, pos, pos + Len(lit) - 1) = lit
         THEN Parsed(pos + Len(lit), <<>>)
         ELSE Thrown("FormatError", pos + Len(lit))
    ELSE IF stale /\ SubSeq(s, pos, Len(s)) = SubSeq(lit, 1, Len(s) - pos + 1)
         THEN Parsed(Len(s) + 1, <<>>)
         ELSE Thrown("FormatError", Len(s) + 1)

\* The character an escape stands for, lines 78-81.
Unescaped(ch) ==
    IF ch = "n" THEN "\n" ELSE IF ch = "r" THEN "\r"
    ELSE IF ch = "t" THEN "\t" ELSE ch

RECURSIVE StringBody(_, _, _)

\* The loop of parseString, lines 75-84.  At the end of the text str.get()
\* keeps returning EOF, which is not '"': the loop appends to res until
\* memory is exhausted.
StringBody(s, pos, res) ==
    IF pos > Len(s) THEN Thrown("std::bad_alloc", pos)
    ELSE IF s[pos] = "\"" THEN Parsed(pos + 1, res)
    ELSE IF s[pos] = "\\"
    THEN IF pos + 1 > Len(s) THEN Thrown("std::bad_alloc", pos + 1)
         ELSE StringBody(s, pos + 2, Append(res, Unescaped(s[pos + 1])))
    ELSE StringBody(s, pos + 1, Append(res, s[pos]))

\* parseString, lines 70-85.
parseString(s, pos, stale) ==
    IF expect(s, pos, <<"\"">>, stale).err # ""
    THEN Rethrown(expect(s, pos, <<"\"">>, stale))
    ELSE StringBody(s, expect(s, pos, <<"\"">>, stale).pos, <<>>)

\* parsePath, lines 88-94.
parsePath(s, pos, stale) ==
    IF parseString(s, pos, stale).err # "" THEN parseString(s, pos, stale)
    ELSE IF \/ parseString(s, pos, stale).val = <<>>
            \/ parseString(s, pos, stale).val[1] # "/"
    THEN Thrown("FormatError", parseString(s, pos, stale).pos)
    ELSE parseString(s, pos, stale)

\* endOfList, lines 97-108: [pos, end].
endOfList(s, pos) ==
    IF pos <= Len(s) /\ s[pos] = "," THEN [pos |-> pos + 1, end |-> FALSE]
    ELSE IF pos <= Len(s) /\ s[pos] = "]" THEN [pos |-> pos + 1, end |-> TRUE]
    ELSE [pos |-> pos, end |-> FALSE]

RECURSIVE ParseStringsFrom(_, _, _, _, _)

\* The loop of parseStrings, with the element parsed.
ParseStringsNext(s, r, arePaths, stale, res) ==
    IF r.err # "" THEN Rethrown(r)
    ELSE ParseStringsFrom(s, r.pos, arePaths, stale, res \cup {r.val})

ParseStringsFrom(s, pos, arePaths, stale, res) ==
    IF endOfList(s, pos).end THEN Parsed(endOfList(s, pos).pos, res)
    ELSE ParseStringsNext(s,
             IF arePaths THEN parsePath(s, endOfList(s, pos).pos, stale)
             ELSE parseString(s, endOfList(s, pos).pos, stale),
             arePaths, stale, res)

\* parseStrings, lines 111-117.
parseStrings(s, pos, arePaths, stale) ==
    ParseStringsFrom(s, pos, arePaths, stale, {})

\* The map f with the value v at k.
Put(f, k, v) == [x \in DOMAIN f \cup {k} |-> IF x = k THEN v ELSE f[x]]

\* Lines 127-148, on the three strings read: parseHashType and Hash throw
\* errors of their own.
MakeOutput(pos, path, hashAlgo, hash) ==
    IF hashAlgo = <<>> THEN Parsed(pos, Intensional(path))
    ELSE LET recursive == Len(hashAlgo) >= 2 /\ SubSeq(hashAlgo, 1, 2) = <<"r", ":">>
             ht == parseHashType(IF recursive
                                 THEN SubSeq(hashAlgo, 3, Len(hashAlgo))
                                 ELSE hashAlgo)
         IN  IF ~ht.ok THEN Thrown("UsageError", pos)
             ELSE IF ~ParseHash(hash).ok THEN Thrown("BadHash", pos)
             ELSE Parsed(pos, Fixed(IF recursive THEN "recursive" ELSE "flat",
                                    ht.type, ParseHash(hash).digest))

\* parseDerivationOutput, lines 120-149.
parseDerivationOutput(s, pos, stale) ==
    LET e1 == expect(s, pos, <<",">>, stale)
        path == parsePath(s, e1.pos, stale)
        e2 == expect(s, path.pos, <<",">>, stale)
        hashAlgo == parseString(s, e2.pos, stale)
        e3 == expect(s, hashAlgo.pos, <<",">>, stale)
        hash == parseString(s, e3.pos, stale)
        e4 == expect(s, hash.pos, <<")">>, stale)
    IN  IF e1.err # "" THEN Rethrown(e1)
        ELSE IF path.err # "" THEN Rethrown(path)
        ELSE IF ~parseStorePath(path.val).ok THEN Thrown("BadStorePath", path.pos)
        ELSE IF e2.err # "" THEN Rethrown(e2)
        ELSE IF hashAlgo.err # "" THEN Rethrown(hashAlgo)
        ELSE IF e3.err # "" THEN Rethrown(e3)
        ELSE IF hash.err # "" THEN Rethrown(hash)
        ELSE IF e4.err # "" THEN Rethrown(e4)
        ELSE MakeOutput(e4.pos, parseStorePath(path.val).path,
                        hashAlgo.val, hash.val)

RECURSIVE ParseOutputs(_, _, _, _)

\* Lines 161-165, with the output parsed: emplace keeps an earlier output of
\* the same id.
ParseOutputsNext(s, id, output, stale, res) ==
    IF output.err # "" THEN Rethrown(output)
    ELSE ParseOutputs(s, output.pos, stale,
                      IF id \in DOMAIN res THEN res ELSE Put(res, id, output.val))

\* Lines 160-165: the list of outputs.
ParseOutputs(s, pos, stale, res) ==
    IF endOfList(s, pos).end THEN Parsed(endOfList(s, pos).pos, res)
    ELSE LET e == expect(s, endOfList(s, pos).pos, <<"(">>, stale)
             id == parseString(s, e.pos, stale)
         IN  IF e.err # "" THEN Rethrown(e)
             ELSE IF id.err # "" THEN Rethrown(id)
             ELSE ParseOutputsNext(s, id.val,
                                   parseDerivationOutput(s, id.pos, stale),
                                   stale, res)

RECURSIVE ParseInputDrvs(_, _, _, _)

\* Lines 172-174, with the output names parsed.
ParseInputDrvsNext(s, drvPath, outs, stale, res) ==
    LET e == expect(s, outs.pos, <<")">>, stale)
    IN  IF outs.err # "" THEN Rethrown(outs)
        ELSE IF ~parseStorePath(drvPath).ok THEN Thrown("BadStorePath", outs.pos)
        ELSE IF e.err # "" THEN Rethrown(e)
        ELSE ParseInputDrvs(s, e.pos, stale,
                            Put(res, parseStorePath(drvPath).path, outs.val))

\* Lines 168-175: the list of input derivations.
ParseInputDrvs(s, pos, stale, res) ==
    IF endOfList(s, pos).end THEN Parsed(endOfList(s, pos).pos, res)
    ELSE LET e1 == expect(s, endOfList(s, pos).pos, <<"(">>, stale)
             drvPath == parsePath(s, e1.pos, stale)
             e2 == expect(s, drvPath.pos, <<",", "[">>, stale)
         IN  IF e1.err # "" THEN Rethrown(e1)
             ELSE IF drvPath.err # "" THEN Rethrown(drvPath)
             ELSE IF e2.err # "" THEN Rethrown(e2)
             ELSE ParseInputDrvsNext(s, drvPath.val,
                                     parseStrings(s, e2.pos, FALSE, stale),
                                     stale, res)

RECURSIVE ParseArgs(_, _, _, _)

\* Lines 182-184: the builder arguments.
ParseArgs(s, pos, stale, res) ==
    IF endOfList(s, pos).end THEN Parsed(endOfList(s, pos).pos, res)
    ELSE LET arg == parseString(s, endOfList(s, pos).pos, stale)
         IN  IF arg.err # "" THEN Rethrown(arg)
             ELSE ParseArgs(s, arg.pos, stale, Append(res, arg.val))

RECURSIVE ParseEnv(_, _, _, _)

\* Lines 187-193: the environment variables.
ParseEnv(s, pos, stale, res) ==
    IF endOfList(s, pos).end THEN Parsed(endOfList(s, pos).pos, res)
    ELSE LET e1 == expect(s, endOfList(s, pos).pos, <<"(">>, stale)
             name == parseString(s, e1.pos, stale)
             e2 == expect(s, name.pos, <<",">>, stale)
             value == parseString(s, e2.pos, stale)
             e3 == expect(s, value.pos, <<")">>, stale)
         IN  IF e1.err # "" THEN Rethrown(e1)
             ELSE IF name.err # "" THEN Rethrown(name)
             ELSE IF e2.err # "" THEN Rethrown(e2)
             ELSE IF value.err # "" THEN Rethrown(value)
             ELSE IF e3.err # "" THEN Rethrown(e3)
             ELSE ParseEnv(s, e3.pos, stale, Put(res, name.val, value.val))

\* Lines 177-196: from the input sources on, `outputs` and `inputDrvs`
\* being parsed.
ParseRest(s, name, outputs, inputDrvs, stale) ==
    LET e1 == expect(s, inputDrvs.pos, <<",", "[">>, stale)
        srcs == parseStrings(s, e1.pos, TRUE, stale)
        e2 == expect(s, srcs.pos, <<",">>, stale)
        platform == parseString(s, e2.pos, stale)
        e3 == expect(s, platform.pos, <<",">>, stale)
        builder == parseString(s, e3.pos, stale)
        e4 == expect(s, builder.pos, <<",", "[">>, stale)
        args == ParseArgs(s, e4.pos, stale, <<>>)
        e5 == expect(s, args.pos, <<",", "[">>, stale)
        env == ParseEnv(s, e5.pos, stale, <<>>)
        e6 == expect(s, env.pos, <<")">>, stale)
    IN  IF e1.err # "" THEN Rethrown(e1)
        ELSE IF srcs.err # "" THEN Rethrown(srcs)
        ELSE IF \E p \in srcs.val : ~parseStorePath(p).ok
        THEN Thrown("BadStorePath", srcs.pos)
        ELSE IF e2.err # "" THEN Rethrown(e2)
        ELSE IF platform.err # "" THEN Rethrown(platform)
        ELSE IF e3.err # "" THEN Rethrown(e3)
        ELSE IF builder.err # "" THEN Rethrown(builder)
        ELSE IF e4.err # "" THEN Rethrown(e4)
        ELSE IF args.err # "" THEN Rethrown(args)
        ELSE IF e5.err # "" THEN Rethrown(e5)
        ELSE IF env.err # "" THEN Rethrown(env)
        ELSE IF e6.err # "" THEN Rethrown(e6)
        ELSE Parsed(e6.pos,
                    [ name |-> name,
                      outputs |-> outputs.val,
                      inputDrvs |-> inputDrvs.val,
                      inputSrcs |-> { parseStorePath(p).path : p \in srcs.val },
                      platform |-> platform.val,
                      builder |-> builder.val,
                      args |-> args.val,
                      env |-> env.val ])

\* Lines 168-175 and on, `outputs` being parsed.
ParseInputs(s, name, outputs, stale) ==
    LET e == expect(s, outputs.pos, <<",", "[">>, stale)
        inputDrvs == ParseInputDrvs(s, e.pos, stale, <<>>)
    IN  IF outputs.err # "" THEN Rethrown(outputs)
        ELSE IF e.err # "" THEN Rethrown(e)
        ELSE IF inputDrvs.err # "" THEN Rethrown(inputDrvs)
        ELSE ParseRest(s, name, outputs, inputDrvs, stale)

\* parseDerivation, lines 152-197: [err, pos, val], val the Derivation.
\* Nothing looks at what follows the last ')'.
parseDerivation(s, name, stale) ==
    LET e == expect(s, 1, <<"D", "e", "r", "i", "v", "e", "(", "[">>, stale)
    IN  IF e.err # "" THEN Rethrown(e)
        ELSE ParseInputs(s, name, ParseOutputs(s, e.pos, stale, <<>>), stale)

---------------------------------------------------------------------------
(* Derivations unparsed and parsed *)

\* Derivation paths, output paths and source paths.
DrvPathC == [hashPart |-> "c", name |-> <<"x">>]
DrvPathD == [hashPart |-> "d", name |-> <<"x">>]
OutPath == [hashPart |-> "o", name |-> <<"x">>]
SrcPath == [hashPart |-> "s", name |-> <<"x">>]

Out == <<"o", "u", "t">>
Dev == <<"d", "e", "v">>

\* A Derivation with one intensional output and one of everything else.
PlainDrv ==
    [ name |-> <<"x">>,
      outputs |-> [id \in {Out} |-> Intensional(OutPath)],
      inputDrvs |-> [p \in {DrvPathC} |-> {Out}],
      inputSrcs |-> {SrcPath},
      platform |-> <<"x">>,
      builder |-> <<"b">>,
      args |-> << <<"a">> >>,
      env |-> [k \in {<<"k">>} |-> <<"v">>] ]

\* Strings with each of the characters printString escapes.
Specials == { <<"\"">>, <<"\\">>, <<"\n">>, <<"\r">>, <<"\t">> }

OutputChoices ==
    { [id \in {Out} |-> Fixed("flat", "sha256", 1)],
      [id \in {Out, Dev} |->
          IF id = Out THEN Intensional(OutPath) ELSE Fixed("recursive", "md5", 2)],
      <<>> }
    \cup { [id \in {s} |-> Intensional(OutPath)] : s \in Specials }

InputDrvChoices ==
    { <<>>,
      [p \in {DrvPathC, DrvPathD} |-> IF p = DrvPathC THEN {Out, Dev} ELSE {}] }

ArgChoices == { <<>>, << <<"a">>, <<"\"", "\\", "\n", "\r", "\t">>, <<>> >> }

EnvChoices ==
    { <<>>,
      [k \in {<<"k">>, <<"\\", "n">>} |->
          IF k = <<"k">> THEN <<>> ELSE <<"\t", "\"", "x">>] }

\* The Derivations at hand: the plain one, and it with one field changed.
Derivations ==
    {PlainDrv}
    \cup { [PlainDrv EXCEPT !.outputs = o] : o \in OutputChoices }
    \cup { [PlainDrv EXCEPT !.inputDrvs = i] : i \in InputDrvChoices }
    \cup { [PlainDrv EXCEPT !.inputSrcs = i] : i \in {{}, {SrcPath, OutPath}} }
    \cup { [PlainDrv EXCEPT !.platform = s] : s \in Specials }
    \cup { [PlainDrv EXCEPT !.builder = s] : s \in Specials }
    \cup { [PlainDrv EXCEPT !.args = a] : a \in ArgChoices }
    \cup { [PlainDrv EXCEPT !.env = e] : e \in EnvChoices }

\* The store of binary-cache-store.cc, which nothing here touches.
StoreUnused ==
    /\ cfg = CHOOSE c \in Configs : TRUE
    /\ backend = EmptyBackend
    /\ tier1 = [p \in Paths |-> Unknown]
    /\ tier2 = [p \in Paths |-> Unknown]
    /\ stats = ZeroStats
    /\ thr = [t \in Threads |-> IdleThread]
    /\ calls = 0
    /\ envOps = 0
    /\ crashed = FALSE
    /\ ingested = [p \in Paths |-> <<>>]
    /\ tampered = FALSE
    /\ settings = DefaultSettings

storeVars ==
    <<cfg, backend, tier1, tier2, stats, thr, calls, envOps, crashed, ingested,
      tampered, settings>>

NotEdited == [kind |-> "none", pos |-> 0, ch |-> ""]

NotParsed == [err |-> "not parsed", pos |-> 0, val |-> <<>>]

InitParse ==
    /\ StoreUnused
    /\ drv \in Derivations
    /\ aterm = <<>>
    /\ edit = [kind |-> "start", pos |-> 0, ch |-> ""]
    /\ parsed = NotParsed
    /\ drvHashes = <<>>
    /\ last = <<>>
    /\ prev = <<>>
    /\ wire = <<>>
    /\ target = <<>>

\* drv.unparse(store, false)
Unparse ==
    /\ edit.kind = "start"
    /\ aterm' = unparse(drv, FALSE, NoInputs)
    /\ edit' = NotEdited
    /\ UNCHANGED <<storeVars, drv, parsed, drvHashes, last, prev, wire,
      target>>

\* The text before its i-th character, and from it on.
Before(s, i) == SubSeq(s, 1, i - 1)

From(s, i) == SubSeq(s, i, Len(s))

\* Whoever holds the text puts the character ch before its i-th.
InsertChar(i, ch) ==
    /\ edit = NotEdited
    /\ parsed = NotParsed
    /\ aterm' = Before(aterm, i) \o <<ch>> \o From(aterm, i)
    /\ edit' = [kind |-> "insert", pos |-> i, ch |-> ch]
    /\ UNCHANGED <<storeVars, drv, parsed, drvHashes, last, prev, wire,
      target>>

\* Whoever holds the text takes its i-th character out.
DeleteChar(i) ==
    /\ edit = NotEdited
    /\ parsed = NotParsed
    /\ aterm' = Before(aterm, i) \o From(aterm, i + 1)
    /\ edit' = [kind |-> "delete", pos |-> i, ch |-> aterm[i]]
    /\ UNCHANGED <<storeVars, drv, parsed, drvHashes, last, prev, wire,
      target>>

\* Whoever holds the text keeps its first i characters only.
Truncate(i) ==
    /\ edit = NotEdited
    /\ parsed = NotParsed
    /\ aterm' = SubSeq(aterm, 1, i)
    /\ edit' = [kind |-> "truncate", pos |-> i, ch |-> ""]
    /\ UNCHANGED <<storeVars, drv, parsed, drvHashes, last, prev, wire,
      target>>

\* parseDerivation(store, aterm, drv.name)
ParseDerivation(stale) ==
    /\ edit.kind # "start"
    /\ parsed = NotParsed
    /\ parsed' = parseDerivation(aterm, drv.name, stale)
    /\ UNCHANGED <<storeVars, drv, aterm, edit, drvHashes, last, prev, wire,
      target>>

NextParse ==
    \/ Unparse
    \/ \E i \in 1..(Len(aterm) + 1), ch \in {",", " ", ")"} : InsertChar(i, ch)
    \/ \E i \in 1..Len(aterm) : DeleteChar(i)
    \/ \E i \in 0..(Len(aterm) - 1) : Truncate(i)
    \/ \E stale \in BOOLEAN : ParseDerivation(stale)

\* A Derivation unparsed, the text edited or not, and parsed.
SpecParse == InitParse /\ [][NextParse]_vars

---------------------------------------------------------------------------
(* derivations.cc: hashDerivationModulo *)

\* No derivation taken for a fixed-output one.
NeverFixedOutput(d) == FALSE

\* BasicDerivation::isFixedOutput, lines 348-353.
isFixedOutput(d) ==
    /\ Cardinality(DOMAIN d.outputs) = 1
    /\ Out \in DOMAIN d.outputs
    /\ d.outputs[Out].kind = "fixed"

\* hash.to_string(Base16, false) of a hash hashString computed: the text
\* hashed, between braces.
HashText(h) == <<"{">> \o h[2] \o <<"}">>

\* Derivations in the store: two fetches of the same fixed output from
\* different places, two libraries that differ in which fetch they take,
\* and a library with another builder.
FetchPathA == [hashPart |-> "a", name |-> <<"f">>]
FetchPathB == [hashPart |-> "b", name |-> <<"f">>]
DrvPathE == [hashPart |-> "e", name |-> <<"x">>]

Fetch(url) ==
    [ name |-> <<"f">>,
      outputs |-> [id \in {Out} |-> Fixed("flat", "sha256", 1)],
      inputDrvs |-> <<>>,
      inputSrcs |-> {},
      platform |-> <<"x">>,
      builder |-> <<"b">>,
      args |-> <<>>,
      env |-> [k \in {<<"u">>} |-> url] ]

Library(fetch, builder) ==
    [ name |-> <<"x">>,
      outputs |-> [id \in {Out, Dev} |->
                      Intensional([hashPart |-> IF id = Out THEN "o" ELSE "v",
                                   name |-> <<"x">>])],
      inputDrvs |-> [p \in {fetch} |-> {Out}],
      inputSrcs |-> {},
      platform |-> <<"x">>,
      builder |-> builder,
      args |-> <<>>,
      env |-> <<>> ]

StoreDrvs ==
    [ p \in {FetchPathA, FetchPathB, DrvPathC, DrvPathD, DrvPathE} |->
        IF p = FetchPathA THEN Fetch(<<"x">>)
        ELSE IF p = FetchPathB THEN Fetch(<<"y">>)
        ELSE IF p = DrvPathC THEN Library(FetchPathA, <<"b">>)
        ELSE IF p = DrvPathD THEN Library(FetchPathB, <<"b">>)
        ELSE Library(FetchPathA, <<"c">>) ]

\* store.readDerivation(drvPath), lines 217-225: the name is the path's.
readDerivation(p) == [StoreDrvs[p] EXCEPT !.name = p.name]

\* Lines 382-389: the text hashed for a fixed-output derivation.
FixedOutputText(d) ==
    <<"f", "i", "x", "e", "d", ":", "o", "u", "t", ":">>
    \o printMethodAlgo(d.outputs[Out]) \o <<":">>
    \o Base16(d.outputs[Out].digest) \o <<":">>
    \o printStorePath(OutputPath(d.outputs[Out], d.name))

RECURSIVE hashDerivationModulo(_, _, _)

RECURSIVE HashInputs(_, _, _, _, _, _)

\* Lines 395-400 for the input derivation p: [hash, memo, read], the memo
\* table after it and the derivations read from the store for it.
HashInput(p, memo) ==
    IF p \in DOMAIN memo
    THEN [hash |-> memo[p], memo |-> memo, read |-> {}]
    ELSE LET h == hashDerivationModulo(readDerivation(p), FALSE, memo)
         IN  [hash |-> h.hash, memo |-> Put(h.memo, p, h.hash),
              read |-> h.read \cup {p}]

\* Lines 394-402 with the hash of the i-th input derivation found.
HashInputsNext(d, paths, i, h, inputs2, read) ==
    HashInputs(d, paths, i + 1, h.memo,
               Put(inputs2, HashText(h.hash), d.inputDrvs[PathOf(paths[i])]),
               read \cup h.read)

\* The loop of lines 394-402 from the i-th input derivation on:
\* [inputs2, memo, read].
HashInputs(d, paths, i, memo, inputs2, read) ==
    IF i > Len(paths)
    THEN [inputs2 |-> inputs2, memo |-> memo, read |-> read]
    ELSE HashInputsNext(d, paths, i, HashInput(PathOf(paths[i]), memo),
                        inputs2, read)

\* Line 404 on the outcome of the loop.
HashUnparsed(d, maskOutputs, r) ==
    [ hash |-> hashString(unparse(d, maskOutputs,
                                  [given |-> TRUE, map |-> r.inputs2])),
      memo |-> r.memo,
      read |-> r.read ]

\* hashDerivationModulo(store, drv, maskOutputs), lines 379-405, with
\* drvHashes being `memo`: [hash, memo, read].  Every input derivation is a
\* valid path of the store.
hashDerivationModulo(d, maskOutputs, memo) ==
    IF isFixedOutput(d)
    THEN [hash |-> hashString(FixedOutputText(d)), memo |-> memo, read |-> {}]
    ELSE HashUnparsed(d, maskOutputs,
                      HashInputs(d, OrderedPaths(DOMAIN d.inputDrvs), 1, memo,
                                 <<>>, {}))

\* The input derivations a Derivation at hand has: none, one of those in
\* the store, or two of the libraries, each with one output wanted.
InputChoices ==
    UNION { [S -> {{Out}, {Dev}}] :
              S \in {{}} \cup { {p} : p \in DOMAIN StoreDrvs }
                       \cup { {DrvPathC, DrvPathD}, {DrvPathC, DrvPathE} } }

\* A fixed-output Derivation.
FixedDrv ==
    [ PlainDrv EXCEPT !.name = <<"f">>,
                      !.outputs = [id \in {Out} |-> Fixed("flat", "sha256", 1)],
                      !.inputDrvs = <<>> ]

\* The Derivations hashed: the plain one with each choice of inputs, the
\* fixed-output one with one field changed, and one with its fixed output
\* not named out.
HashedDrvs ==
    { [PlainDrv EXCEPT !.inputDrvs = i] : i \in InputChoices }
    \cup {FixedDrv}
    \cup { [FixedDrv EXCEPT !.outputs = [id \in {Out} |-> o]] :
             o \in { Fixed("recursive", "sha256", 1), Fixed("flat", "md5", 1),
                     Fixed("flat", "sha256", 2) } }
    \cup { [FixedDrv EXCEPT !.name = <<"y">>],
           [FixedDrv EXCEPT !.inputDrvs = [p \in {DrvPathC} |-> {Out}]],
           [FixedDrv EXCEPT !.inputSrcs = {}, !.platform = <<"y">>,
                            !.builder = <<"c">>, !.args = <<>>],
           [FixedDrv EXCEPT !.env = [k \in {Out} |-> <<"v">>]],
           [FixedDrv EXCEPT !.outputs = [id \in {Dev} |-> Fixed("flat", "sha256", 1)]] }

NoCall ==
    [ made |-> FALSE, drv |-> PlainDrv, maskOutputs |-> FALSE,
      hash |-> hashString(<<>>), before |-> <<>>, read |-> {} ]

InitModulo ==
    /\ StoreUnused
    /\ drv = <<>>
    /\ aterm = <<>>
    /\ edit = <<>>
    /\ parsed = <<>>
    /\ drvHashes = <<>>
    /\ last = NoCall
    /\ prev = NoCall
    /\ wire = <<>>
    /\ target = <<>>

\* What a call of hashDerivationModulo leaves.
ApplyHash(d, maskOutputs, r) ==
    /\ drvHashes' = r.memo
    /\ last' = [ made |-> TRUE, drv |-> d, maskOutputs |-> maskOutputs,
                 hash |-> r.hash, before |-> drvHashes, read |-> r.read ]
    /\ prev' = last

\* hashDerivationModulo(store, d, maskOutputs)
HashDerivationModulo(d, maskOutputs) ==
    /\ calls < MaxCalls
    /\ ApplyHash(d, maskOutputs, hashDerivationModulo(d, maskOutputs, drvHashes))
    /\ calls' = calls + 1
    /\ UNCHANGED <<cfg, backend, tier1, tier2, stats, thr, envOps, crashed,
                   ingested, tampered, settings, drv, aterm, edit, parsed,
                   wire, target>>

NextModulo ==
    \E d \in HashedDrvs, maskOutputs \in BOOLEAN : HashDerivationModulo(d, maskOutputs)

\* Calls of hashDerivationModulo, one after the other, on one store.
SpecModulo == InitModulo /\ [][NextModulo]_vars

---------------------------------------------------------------------------
(* derivations.cc: hashDerivationModulo on several threads *)

\* drvHashes (line 356) is one table for the process, and lines 395-401
\* call find and insert_or_assign on it directly, with nothing held.  A call
\* of hashDerivationModulo is a stack of frames, one per recursive call of
\* line 398; `find` and `insert_or_assign` each take time, from their begin
\* to their end.

\* The frame of hashDerivationModulo(store, d, maskOutputs) at line 394.
Frame(d, maskOutputs) ==
    [ drv |-> d, maskOutputs |-> maskOutputs,
      paths |-> OrderedPaths(DOMAIN d.inputDrvs), i |-> 1, inputs2 |-> <<>>,
      pc |-> "loop", got |-> NoHash, raced |-> FALSE ]

\* A thread that is not in hashDerivationModulo.
NotHashing == [stack |-> <<>>, results |-> <<>>, inserted |-> {}]

Top(t) == thr[t].stack[Len(thr[t].stack)]

InFrame(t) == thr[t].stack # <<>>

\* Thread t is inside drvHashes.find (line 395).
Finding(t) == InFrame(t) /\ Top(t).pc = "find"

\* Thread t is inside drvHashes.insert_or_assign (line 398).
Inserting(t) == InFrame(t) /\ Top(t).pc = "insert"

\* i.first of the iteration a frame is in.
KeyAt(f) == PathOf(f.paths[f.i])

\* The frame has nothing left to do but return: line 385, or line 404.
Done(f) == isFixedOutput(f.drv) \/ f.i > Len(f.paths)

\* The value a frame returns, line 385 or line 404.
FrameResult(f) ==
    IF isFixedOutput(f.drv) THEN hashString(FixedOutputText(f.drv))
    ELSE hashString(unparse(f.drv, f.maskOutputs,
                            [given |-> TRUE, map |-> f.inputs2]))

\* The stack with its top frame replaced.
WithTop(t, f) == [thr[t].stack EXCEPT ![Len(thr[t].stack)] = f]

\* Line 401 in frame f with the hash h of the input found or inserted, and
\* on to the next input derivation.
NextInput(f, h) ==
    [ f EXCEPT !.inputs2 = Put(@, HashText(h), f.drv.inputDrvs[KeyAt(f)]),
               !.i = @ + 1, !.pc = "loop", !.got = NoHash, !.raced = FALSE ]

\* The threads whose access to the table an insertion of another thread
\* that begins now overlaps, and those an access beginning now overlaps.
Accessing(t) == { u \in Threads \ {t} : Finding(u) \/ Inserting(u) }

InsertingNow(t) == { u \in Threads \ {t} : Inserting(u) }

\* The threads `hit` are in an access that overlapped an insertion.
Overlapped(hit) ==
    [ u \in Threads |->
        IF u \in hit
        THEN [thr[u] EXCEPT !.stack = WithTop(u, [Top(u) EXCEPT !.raced = TRUE])]
        ELSE thr[u] ]

memoUnchanged ==
    <<cfg, backend, tier1, tier2, stats, envOps, ingested, tampered, settings,
      drv, aterm, edit, parsed, last, prev, wire,
      target>>

\* Thread t calls hashDerivationModulo(store, d, maskOutputs).
CallModulo(t, d, maskOutputs) ==
    /\ ~crashed
    /\ ~InFrame(t)
    /\ calls < MaxCalls
    /\ thr' = [thr EXCEPT ![t].stack = <<Frame(d, maskOutputs)>>]
    /\ calls' = calls + 1
    /\ UNCHANGED <<crashed, drvHashes, memoUnchanged>>

\* Line 395, begun: drvHashes.find(i.first).
FindBegin(t) ==
    /\ ~crashed
    /\ InFrame(t)
    /\ Top(t).pc = "loop"
    /\ ~Done(Top(t))
    /\ thr' = [ Overlapped(InsertingNow(t)) EXCEPT
                  ![t].stack = WithTop(t, [Top(t) EXCEPT
                                              !.pc = "find",
                                              !.raced = InsertingNow(t) # {}]) ]
    /\ UNCHANGED <<calls, crashed, drvHashes, memoUnchanged>>

\* The values a find that overlapped an insertion can come upon for the
\* key p: the one in the table and those being inserted.
Visible(t, p) ==
    (IF p \in DOMAIN drvHashes THEN {drvHashes[p]} ELSE {})
    \cup { Top(u).got : u \in { v \in InsertingNow(t) : KeyAt(Top(v)) = p } }

\* Lines 396-401 with the entry found: nothing to compute.
FindHit(t, h) ==
    /\ thr' = [thr EXCEPT ![t].stack = WithTop(t, NextInput(Top(t), h))]
    /\ UNCHANGED <<calls, crashed, drvHashes, memoUnchanged>>

\* Lines 396-399 with no entry found: the input derivation is read from
\* the store (a valid path) and hashDerivationModulo called on it.
FindMiss(t) ==
    /\ thr' = [thr EXCEPT ![t].stack =
                 Append(WithTop(t, [Top(t) EXCEPT !.pc = "call", !.raced = FALSE]),
                        Frame(readDerivation(KeyAt(Top(t))), FALSE))]
    /\ UNCHANGED <<calls, crashed, drvHashes, memoUnchanged>>

\* The process dies in an access to a table another thread is changing.
Crash ==
    /\ crashed' = TRUE
    /\ UNCHANGED <<thr, calls, drvHashes, memoUnchanged>>

\* Line 395, ended.  A find that overlapped an insertion walked a tree that
\* was being relinked: it may have come upon the entry or not, or have
\* followed a dangling pointer.
FindEnd(t) ==
    /\ ~crashed
    /\ Finding(t)
    /\ IF Top(t).raced
       THEN \/ \E h \in Visible(t, KeyAt(Top(t))) : FindHit(t, h)
            \/ FindMiss(t)
            \/ Crash
       ELSE IF KeyAt(Top(t)) \in DOMAIN drvHashes
            THEN FindHit(t, drvHashes[KeyAt(Top(t))])
            ELSE FindMiss(t)

\* Line 385 or 404: the frame returns, to line 398 of the frame below or
\* to the caller of the thread.
Return(t) ==
    /\ ~crashed
    /\ InFrame(t)
    /\ Top(t).pc = "loop"
    /\ Done(Top(t))
    /\ LET n == Len(thr[t].stack)
       IN  thr' = [thr EXCEPT ![t] =
                     IF n = 1
                     THEN [@ EXCEPT !.stack = <<>>,
                                    !.results = Append(@, FrameResult(Top(t)))]
                     ELSE [@ EXCEPT !.stack =
                             [SubSeq(thr[t].stack, 1, n - 1) EXCEPT
                                ![n - 1].pc = "got",
                                ![n - 1].got = FrameResult(Top(t))]]]
    /\ UNCHANGED <<calls, crashed, drvHashes, memoUnchanged>>

\* Line 398, begun: drvHashes.insert_or_assign(i.first, <the hash>).
InsertBegin(t) ==
    /\ ~crashed
    /\ InFrame(t)
    /\ Top(t).pc = "got"
    /\ thr' = [ Overlapped(Accessing(t)) EXCEPT
                  ![t].stack = WithTop(t, [Top(t) EXCEPT
                                              !.pc = "insert",
                                              !.raced = Accessing(t) # {}]) ]
    /\ UNCHANGED <<calls, crashed, drvHashes, memoUnchanged>>

\* Lines 398-401 with the insertion over; `linked` tells whether the entry
\* is in the table.
Inserted(t, linked) ==
    /\ drvHashes' = IF linked THEN Put(drvHashes, KeyAt(Top(t)), Top(t).got)
                    ELSE drvHashes
    /\ thr' = [thr EXCEPT
                 ![t].stack = WithTop(t, NextInput(Top(t), Top(t).got)),
                 ![t].inserted = @ \cup {<<KeyAt(Top(t)), Top(t).got>>}]
    /\ UNCHANGED <<calls, crashed, memoUnchanged>>

\* Line 398, ended.  An insertion that overlapped another access may have
\* linked its node where the other insertion linked its own, and be lost,
\* or have followed a dangling pointer.
InsertEnd(t) ==
    /\ ~crashed
    /\ Inserting(t)
    /\ IF Top(t).raced
       THEN \/ \E linked \in BOOLEAN : Inserted(t, linked)
            \/ Crash
       ELSE Inserted(t, TRUE)

\* The calls the threads make: for the plain Derivation with one input
\* derivation, for it with two input derivations that have the same input
\* derivation themselves, and for a fixed-output one.
MemoCalls ==
    { [drv |-> PlainDrv, maskOutputs |-> FALSE],
      [drv |-> [PlainDrv EXCEPT
                  !.inputDrvs = [p \in {DrvPathC, DrvPathE} |-> {Out}]],
       maskOutputs |-> TRUE],
      [drv |-> FixedDrv, maskOutputs |-> FALSE] }

InitMemo ==
    /\ cfg = CHOOSE c \in Configs : TRUE
    /\ backend = EmptyBackend
    /\ tier1 = [p \in Paths |-> Unknown]
    /\ tier2 = [p \in Paths |-> Unknown]
    /\ stats = ZeroStats
    /\ thr = [t \in Threads |-> NotHashing]
    /\ calls = 0
    /\ envOps = 0
    /\ crashed = FALSE
    /\ ingested = [p \in Paths |-> <<>>]
    /\ tampered = FALSE
    /\ settings = DefaultSettings
    /\ drv = <<>>
    /\ aterm = <<>>
    /\ edit = <<>>
    /\ parsed = <<>>
    /\ drvHashes = <<>>
    /\ last = NoCall
    /\ prev = NoCall
    /\ wire = <<>>
    /\ target = <<>>

NextMemo ==
    \E t \in Threads :
        \/ \E c \in MemoCalls : CallModulo(t, c.drv, c.maskOutputs)
        \/ FindBegin(t)
        \/ FindEnd(t)
        \/ Return(t)
        \/ InsertBegin(t)
        \/ InsertEnd(t)

\* hashDerivationModulo called from two threads of one process.
SpecMemo == InitMemo /\ [][NextMemo]_vars

---------------------------------------------------------------------------
(* getBuildLog *)

\* The extension of the name of a derivation.
drvExtension == <<".", "d", "r", "v">>

hasSuffix(s, suffix) ==
    /\ Len(s) >= Len(suffix)
    /\ SubSeq(s, Len(s) - Len(suffix) + 1, Len(s)) = suffix

\* isDerivation(fileName), derivations.cc lines 342-345; path.isDerivation()
\* is this test of the path's name.
isDerivation(fileName) == hasSuffix(fileName, drvExtension)

\* baseNameOf: what follows the last '/'.
baseNameOf(text) ==
    LET slashes == { i \in 1..Len(text) : text[i] = "/" }
    IN  IF slashes = {} THEN text
        ELSE SubSeq(text, (CHOOSE i \in slashes : \A j \in slashes : j <= i) + 1,
                    Len(text))

\* The store paths build logs are asked for, by hash part: a is the output
\* of a build, b a derivation that is itself in the cache; and d is a
\* derivation that is not.
LogNames ==
    [ a |-> <<"x">>,
      b |-> <<"x">> \o drvExtension,
      d |-> <<"y">> \o drvExtension ]

StorePathOf(h) == [hashPart |-> h, name |-> LogNames[h]]

\* Line 409: "log/" + baseNameOf(printStorePath(drvPath)).
logPath(drvPath) ==
    <<"l", "o", "g", "/">> \o baseNameOf(printStorePath(StorePathOf(drvPath)))

\* A build log.
LogText == <<"o", "k">>

\* The .narinfo of path p with deriver dv in a cache of configuration c.
LogNarInfo(c, p, dv) ==
    [MakeNarInfo(c, [NoInfo EXCEPT !.path = p], FirstNar) EXCEPT !.deriver = dv]

\* A backend with the .narinfo files `infos` (by path) and the logs of the
\* derivations `logs`.
LogBackend(c, infos, logs) ==
    [ narinfo |-> [k \in { narInfoFileFor(p) : p \in DOMAIN infos } |->
                     to_string(LogNarInfo(c, k[1], infos[k[1]]))],
      nar |-> EmptyMap, ls |-> EmptyMap, debuginfo |-> EmptyMap,
      top |-> EmptyMap,
      log |-> [k \in { logPath(p) : p \in logs } |-> LogText] ]

\* Line 413 for the derivation drvPath, after `read` fetches of a .narinfo:
\* the result of getFile(logPath) and the key asked for.
LogFetched(c, b, t1, t2, read, drvPath, fail) ==
    [ got |-> getFileSync(c, b, "log", logPath(drvPath), fail),
      key |-> <<logPath(drvPath)>>, t1 |-> t1, t2 |-> t2, read |-> read ]

\* getBuildLog returns (res "null", lines 402 and 405) or throws (res
\* "error") with no log asked for.
NoLog(q, res) ==
    [ got |-> [res |-> res, data |-> <<>>],
      key |-> <<>>, t1 |-> q.t1, t2 |-> q.t2, read |-> q.read ]

\* Lines 399-406 on the result q of queryPathInfo(path), then 409-413.
LogOfDeriver(c, b, q, fail) ==
    IF q.res = "InvalidPath" THEN NoLog(q, "null")
    ELSE IF q.res = "error" THEN NoLog(q, "error")
    ELSE IF q.info.deriver = "" THEN NoLog(q, "null")
    ELSE LogFetched(c, b, q.t1, q.t2, q.read, q.info.deriver, fail)

\* getBuildLog(path), lines 394-414: [got, key, t1, t2, read].
getBuildLog(c, b, t1, t2, path, failInfo, failLog) ==
    IF isDerivation(LogNames[path])
    THEN LogFetched(c, b, t1, t2, 0, path, failLog)
    ELSE LogOfDeriver(c, b, queryPathInfo(c, b, t1, t2, path, failInfo), failLog)

\* What a call of getBuildLog leaves; a null pointer dereferenced in
\* getFile(path, sink) ends the process, or hands the sink nothing.
ApplyGetBuildLog(t, rec, r, ubCrash) ==
    /\ tier1' = r.t1
    /\ tier2' = r.t2
    /\ stats' = [stats EXCEPT !.narInfoRead = @ + r.read]
    /\ IF r.got.res = "ub" /\ ubCrash
       THEN /\ thr' = [thr EXCEPT ![t] =
                         [Returned(rec, "abort", "null dereference") EXCEPT
                            !.fetch = r.got.res, !.cb = r.key]]
            /\ crashed' = TRUE
       ELSE /\ thr' = [thr EXCEPT ![t] =
                         [Returned(rec, IF r.got.res = "error" THEN "error" ELSE "ok",
                                   IF r.got.res = "error" THEN "backend" ELSE "")
                            EXCEPT !.fetch = r.got.res,
                                   !.cb = r.key,
                                   !.sink = IF AsReturned(r.got).res = "data"
                                            THEN AsReturned(r.got).data[1] ELSE <<>>,
                                   !.finished = (AsReturned(r.got).res = "data")]]
            /\ crashed' = crashed

\* getBuildLog(path); thr[t].cb holds the key asked of the backend, if any,
\* thr[t].fetch what getFile made of it and thr[t].finished whether a log
\* was returned.
GetBuildLog(t, path, failInfo, failLog, ubCrash) ==
    /\ CanBegin(t)
    /\ ApplyGetBuildLog(t,
          [IdleThread EXCEPT !.op = "getBuildLog", !.seq = calls + 1,
                             !.path = path, !.ioFail = failInfo \/ failLog],
          getBuildLog(cfg, backend, tier1, tier2, path, failInfo, failLog),
          ubCrash)
    /\ calls' = calls + 1
    /\ UNCHANGED <<others, cfg, backend, envOps, ingested, tampered>>

\* The paths getBuildLog is called for.
LogPaths == {"a", "b"}

\* The derivers a .narinfo names: none, or one of the derivations.
Derivers == {"", "b", "d"}

\* A cache some builds were uploaded to, and a store opened on it.
InitLog ==
    /\ cfg \in Configs
    /\ \E S \in SUBSET LogPaths, logs \in SUBSET {"b", "d"} :
         \E infos \in [S -> Derivers] : backend = LogBackend(cfg, infos, logs)
    /\ tier1 = [p \in Paths |-> Unknown]
    /\ tier2 = [p \in Paths |-> Unknown]
    /\ stats = ZeroStats
    /\ thr = [t \in Threads |-> IdleThread]
    /\ calls = 0
    /\ envOps = 0
    /\ crashed = FALSE
    /\ ingested = [p \in Paths |-> <<>>]
    /\ tampered = FALSE
    /\ settings = DefaultSettings
    /\ NoDerivation

NextLog ==
    \E t \in Threads, path \in LogPaths, failInfo \in BOOLEAN,
       failLog \in BOOLEAN, ubCrash \in BOOLEAN :
        GetBuildLog(t, path, failInfo, failLog, ubCrash)

\* getBuildLog on a cache nobody writes to.
SpecLog == InitLog /\ [][NextLog]_vars

---------------------------------------------------------------------------
(* addToStore: the debuginfo index *)

\* NARs with debug members: two with a member of the same build id, one of
\* them with a second member.
DebugNars == { NarMagic \o <<2, 201>>, NarMagic \o <<3, 201, 202>> }

\* The configurations that keep the index, with two calling threads.
DebugConfigs ==
    { [c EXCEPT !.threads = {1, 2}] : c \in { d \in Configs : d.writeDebugInfo } }

InitDebug ==
    /\ cfg \in DebugConfigs
    /\ backend = EmptyBackend
    /\ tier1 = [p \in Paths |-> Unknown]
    /\ tier2 = [p \in Paths |-> Unknown]
    /\ stats = ZeroStats
    /\ thr = [t \in Threads |-> IdleThread]
    /\ calls = 0
    /\ envOps = 0
    /\ crashed = FALSE
    /\ ingested = [p \in Paths |-> <<>>]
    /\ tampered = FALSE
    /\ settings = DefaultSettings
    /\ NoDerivation

\* The steps of addToStore for NARs with debug members, with and without
\* repair, no upsertFile failing, the info claiming neither references nor
\* a hash.
NextDebug ==
    \E t \in Threads :
        \/ \E info \in { i \in Infos : i.references = {} /\ i.narHash = NoHash },
              nar \in DebugNars, repair \in BOOLEAN :
              AddToStoreBegin(t, info, nar, repair, FALSE)
        \/ AddToStoreListing(t, FALSE)
        \/ \E id \in thr[t].dbgTodo : DebugExists(t, id)
        \/ \E id \in thr[t].dbgWrite : DebugWrite(t, id, FALSE)
        \/ AddToStoreBlobCheck(t)
        \/ AddToStoreBlobWrite(t, FALSE)
        \/ AddToStoreNarInfo(t, FALSE)

\* Ingests of NARs with debug members, from two threads.
SpecDebug == InitDebug /\ [][NextDebug]_vars

---------------------------------------------------------------------------
(* derivations.cc: the binary codec *)

RECURSIVE WriteOutputs(_, _), WriteStrings(_), WriteEnv(_, _)
RECURSIVE ReadOutputs(_, _, _, _), ReadPaths(_, _, _, _)
RECURSIVE ReadStrings(_, _, _, _), ReadEnv(_, _, _, _)

\* The items of the wire: `out << n` writes a number, `out << s` a string.
Num(n) == [tag |-> "num", num |-> n, str |-> <<>>]

Str(s) == [tag |-> "str", num |-> 0, str |-> s]

\* Lines 498-506: per output its id, its printed path, and the method and
\* hash of a fixed output or two empty strings.
WriteOutputs(d, ids) ==
    IF ids = <<>> THEN <<>>
    ELSE << Str(Head(ids)),
            Str(printStorePath(OutputPath(d.outputs[Head(ids)], d.name))),
            Str(IF d.outputs[Head(ids)].kind = "fixed"
                THEN printMethodAlgo(d.outputs[Head(ids)]) ELSE <<>>),
            Str(IF d.outputs[Head(ids)].kind = "fixed"
                THEN Base16(d.outputs[Head(ids)].digest) ELSE <<>>) >>
         \o WriteOutputs(d, Tail(ids))

\* `out << strings` and writeStorePaths: the count, then each string.
WriteStrings(ss) ==
    IF ss = <<>> THEN <<>> ELSE <<Str(Head(ss))>> \o WriteStrings(Tail(ss))

\* Lines 510-512.
WriteEnv(d, keys) ==
    IF keys = <<>> THEN <<>>
    ELSE <<Str(Head(keys)), Str(d.env[Head(keys)])>> \o WriteEnv(d, Tail(keys))

\* writeDerivation(out, store, drv), lines 495-513.
writeDerivation(d) ==
    <<Num(Cardinality(DOMAIN d.outputs))>>
    \o WriteOutputs(d, Ordered(DOMAIN d.outputs))
    \o <<Num(Cardinality(d.inputSrcs))>>
    \o WriteStrings(OrderedPaths(d.inputSrcs))
    \o <<Str(d.platform), Str(d.builder)>>
    \o <<Num(Len(d.args))>> \o WriteStrings(d.args)
    \o <<Num(Cardinality(DOMAIN d.env))>>
    \o WriteEnv(d, Ordered(DOMAIN d.env))

\* What a reader returns: an error or none, the position after what it read,
\* and what it has built so far.
Got(pos, val) == [err |-> "", pos |-> pos, val |-> val]

Failed(err, pos, val) == [err |-> err, pos |-> pos, val |-> val]

\* readNum and readString at a position of the wire.
HasNum(in, pos) == pos <= Len(in) /\ in[pos].tag = "num"

HasStrings(in, pos, n) ==
    /\ pos + n - 1 <= Len(in)
    /\ \A i \in pos..(pos + n - 1) : in[i].tag = "str"

ReadError(in, pos) ==
    IF pos > Len(in) THEN "EndOfFile" ELSE "SerialisationError"

readNum(in, pos) ==
    IF HasNum(in, pos) THEN Got(pos + 1, in[pos].num)
    ELSE Failed(ReadError(in, pos), pos, 0)

\* readDerivationOutput, lines 430-457, on the three strings at pos.
readDerivationOutput(in, pos) ==
    IF ~HasStrings(in, pos, 3) THEN Failed(ReadError(in, pos), pos, <<>>)
    ELSE IF ~parseStorePath(in[pos].str).ok THEN Failed("BadStorePath", pos, <<>>)
    ELSE MakeOutput(pos + 3, parseStorePath(in[pos].str).path,
                    in[pos + 1].str, in[pos + 2].str)

\* Lines 474-478: emplace keeps the output an id already has.
ReadOutputs(in, pos, n, outs) ==
    IF n = 0 THEN Got(pos, outs)
    ELSE IF ~HasStrings(in, pos, 1) THEN Failed(ReadError(in, pos), pos, outs)
    ELSE IF readDerivationOutput(in, pos + 1).err # ""
         THEN Failed(readDerivationOutput(in, pos + 1).err, pos + 1, outs)
    ELSE ReadOutputs(in, pos + 4, n - 1,
                     IF in[pos].str \in DOMAIN outs THEN outs
                     ELSE Put(outs, in[pos].str,
                              readDerivationOutput(in, pos + 1).val))

\* readStorePaths<StorePathSet>(store, in), after the count.
ReadPaths(in, pos, n, paths) ==
    IF n = 0 THEN Got(pos, paths)
    ELSE IF ~HasStrings(in, pos, 1) THEN Failed(ReadError(in, pos), pos, paths)
    ELSE IF ~parseStorePath(in[pos].str).ok THEN Failed("BadStorePath", pos, paths)
    ELSE ReadPaths(in, pos + 1, n - 1,
                   paths \cup {parseStorePath(in[pos].str).path})

\* readStrings<Strings>(in), after the count.
ReadStrings(in, pos, n, ss) ==
    IF n = 0 THEN Got(pos, ss)
    ELSE IF ~HasStrings(in, pos, 1) THEN Failed(ReadError(in, pos), pos, ss)
    ELSE ReadStrings(in, pos + 1, n - 1, Append(ss, in[pos].str))

\* Lines 485-489: drv.env[key] = value, on the env the target has.
ReadEnv(in, pos, n, env) ==
    IF n = 0 THEN Got(pos, env)
    ELSE IF ~HasStrings(in, pos, 2) THEN Failed(ReadError(in, pos), pos, env)
    ELSE ReadEnv(in, pos + 2, n - 1, Put(env, in[pos].str, in[pos + 1].str))

\* Line 484 on: the count of the environment and its entries.
ReadEnvOf(in, t, nr) ==
    IF nr.err # "" THEN Failed(nr.err, nr.pos, t)
    ELSE [ReadEnv(in, nr.pos, nr.val, t.env) EXCEPT
              !.val = [t EXCEPT !.env = ReadEnv(in, nr.pos, nr.val, t.env).val]]

\* Line 482, after the count of the arguments.
ReadArgsOf(in, t, nr) ==
    IF nr.err # "" THEN Failed(nr.err, nr.pos, t)
    ELSE IF ReadStrings(in, nr.pos, nr.val, <<>>).err # ""
         THEN Failed(ReadStrings(in, nr.pos, nr.val, <<>>).err,
                     ReadStrings(in, nr.pos, nr.val, <<>>).pos, t)
    ELSE ReadEnvOf(in, [t EXCEPT !.args = ReadStrings(in, nr.pos, nr.val, <<>>).val],
                   readNum(in, ReadStrings(in, nr.pos, nr.val, <<>>).pos))

\* Line 481: in >> drv.platform >> drv.builder.
ReadPlatformOf(in, t, pos) ==
    IF ~HasStrings(in, pos, 1) THEN Failed(ReadError(in, pos), pos, t)
    ELSE IF ~HasStrings(in, pos + 1, 1)
         THEN Failed(ReadError(in, pos + 1), pos + 1,
                     [t EXCEPT !.platform = in[pos].str])
    ELSE ReadArgsOf(in, [t EXCEPT !.platform = in[pos].str,
                                  !.builder = in[pos + 1].str],
                    readNum(in, pos + 2))

\* Line 480: the input sources are assigned when all of them are read.
ReadSrcsOf(in, t, nr) ==
    IF nr.err # "" THEN Failed(nr.err, nr.pos, t)
    ELSE IF ReadPaths(in, nr.pos, nr.val, {}).err # ""
         THEN Failed(ReadPaths(in, nr.pos, nr.val, {}).err,
                     ReadPaths(in, nr.pos, nr.val, {}).pos, t)
    ELSE ReadPlatformOf(in, [t EXCEPT !.inputSrcs = ReadPaths(in, nr.pos, nr.val, {}).val],
                        ReadPaths(in, nr.pos, nr.val, {}).pos)

\* Lines 473-478, after the count of the outputs; the outputs read before an
\* error stay in the target.
ReadOutputsOf(in, t, nr) ==
    IF nr.err # "" THEN Failed(nr.err, nr.pos, t)
    ELSE IF ReadOutputs(in, nr.pos, nr.val, <<>>).err # ""
         THEN Failed(ReadOutputs(in, nr.pos, nr.val, <<>>).err,
                     ReadOutputs(in, nr.pos, nr.val, <<>>).pos,
                     [t EXCEPT !.outputs = ReadOutputs(in, nr.pos, nr.val, <<>>).val])
    ELSE ReadSrcsOf(in, [t EXCEPT !.outputs = ReadOutputs(in, nr.pos, nr.val, <<>>).val],
                    readNum(in, ReadOutputs(in, nr.pos, nr.val, <<>>).pos))

\* readDerivation(in, store, drv, name), lines 468-492: [err, pos, val], val
\* the target as the call leaves it.
readDerivationIn(in, t, name) ==
    ReadOutputsOf(in, [t EXCEPT !.name = name, !.outputs = <<>>], readNum(in, 1))

\* A BasicDerivation as constructed, and targets that have been used before.
EmptyTarget ==
    [ name |-> <<>>, outputs |-> <<>>, inputDrvs |-> <<>>, inputSrcs |-> {},
      platform |-> <<>>, builder |-> <<>>, args |-> <<>>, env |-> <<>> ]

UsedTarget ==
    [ name |-> <<"y">>,
      outputs |-> [id \in {Dev} |-> Intensional(SrcPath)],
      inputDrvs |-> [p \in {DrvPathD} |-> {Out}],
      inputSrcs |-> {OutPath},
      platform |-> <<"p">>,
      builder |-> <<"q">>,
      args |-> << <<"z">> >>,
      env |-> [k \in {<<"p">>} |-> <<"q">>] ]

Targets ==
    { EmptyTarget, UsedTarget,
      [EmptyTarget EXCEPT !.env = [k \in {<<"k">>} |-> <<"o", "l", "d">>]] }

InitCodec ==
    /\ StoreUnused
    /\ drv \in Derivations
    /\ target \in Targets
    /\ wire = <<>>
    /\ parsed = NotParsed
    /\ aterm = <<>>
    /\ edit = <<>>
    /\ drvHashes = <<>>
    /\ last = <<>>
    /\ prev = <<>>

\* writeDerivation(sink, store, drv)
WriteDerivation ==
    /\ wire = <<>>
    /\ wire' = writeDerivation(drv)
    /\ UNCHANGED <<storeVars, drv, aterm, edit, parsed, drvHashes, last, prev,
                   target>>

\* readDerivation(source, store, target, drv.name)
ReadDerivation ==
    /\ wire # <<>>
    /\ parsed = NotParsed
    /\ parsed' = [ err |-> readDerivationIn(wire, target, drv.name).err,
                   pos |-> readDerivationIn(wire, target, drv.name).pos,
                   val |-> target ]
    /\ target' = readDerivationIn(wire, target, drv.name).val
    /\ UNCHANGED <<storeVars, drv, aterm, edit, drvHashes, last, prev, wire>>

NextCodec == WriteDerivation \/ ReadDerivation

\* A derivation written to a sink and read back into a target.
SpecCodec == InitCodec /\ [][NextCodec]_vars

---------------------------------------------------------------------------
(* Properties *)

\* Thread t has just returned from `op` with `outcome`.
JustReturned(t, op, outcome) ==
    thr[t].pc = "done" /\ thr[t].op = op /\ thr[t].outcome = outcome

\* This step is thread t calling `op`.
Calls(t, op) ==
    calls' = calls + 1 /\ thr'[t].seq = calls' /\ thr'[t].op = op

\* The NarInfo stored under the .narinfo key of p.
StoredNarInfo(p) == ParseNarInfo(backend.narinfo[narInfoFileFor(p)])

\* C1: while the backend is written only by addToStore (no deletion, no
\* foreign write, any upsertFile allowed to fail), every .narinfo key that
\* exists names in its URL a blob key that exists too; and an addToStore
\* that is about to upsert its .narinfo has its blob in the backend already.
BlobBeforeNarInfo ==
    ~tampered =>
        /\ \A p \in Paths :
              fileExists(backend, "narinfo", narInfoFileFor(p)) =>
                  /\ StoredNarInfo(p).ok
                  /\ fileExists(backend, "nar", StoredNarInfo(p).info.url)
        /\ \A t \in Threads :
              thr[t].pc = "narinfo" =>
                  fileExists(backend, "nar", thr[t].narInfo.url)

\* An ingest that found its blob in the backend and wrote the .narinfo only.
BlobBeforeNarInfoWitness ==
    /\ ~tampered
    /\ \E t \in Threads :
          /\ JustReturned(t, "addToStore", "ok")
          /\ "nar" \notin thr[t].written
          /\ "narinfo" \in thr[t].written
          /\ fileExists(backend, "narinfo", narInfoFileFor(thr[t].path))

\* C2: when addToStore has just returned successfully for a path that was
\* not valid before, isValidPath of the path is true and queryPathInfo
\* returns a record whose narHash and narSize are those of the drained NAR.
IngestedThenValid ==
    \A t \in Threads :
        (JustReturned(t, "addToStore", "ok") /\ ~thr[t].wasValid) =>
            /\ isValidPath(cfg, backend, tier1, tier2, thr[t].path)
            /\ queryPathInfo(cfg, backend, tier1, tier2, thr[t].path, FALSE).res
                 = "value"
            /\ queryPathInfo(cfg, backend, tier1, tier2, thr[t].path, FALSE).info.narHash
                 = hashString(thr[t].nar)
            /\ queryPathInfo(cfg, backend, tier1, tier2, thr[t].path, FALSE).info.narSize
                 = Len(thr[t].nar)

\* A successful ingest of a new path whose info claimed no hash (and a
\* narSize of 0).
IngestedThenValidWitness ==
    \E t \in Threads :
        /\ JustReturned(t, "addToStore", "ok")
        /\ ~thr[t].wasValid
        /\ thr[t].claimed = NoHash
        /\ Len(thr[t].nar) > 0

\* C3: a call of addToStore with repair off for a path that isValidPath
\* reports valid returns at once: nothing is upserted, no reference, magic
\* or hash is checked (whatever they are, the call just returns), and the
\* backend, both cache tiers and every counter are as before.
SkipLeavesAllUnchanged ==
    [][\A t \in Threads :
          ( /\ Calls(t, "addToStore")
            /\ ~thr'[t].repair
            /\ isValidPath(cfg, backend, tier1, tier2, thr'[t].path) ) =>
              /\ thr'[t].pc = "done"
              /\ thr'[t].outcome = "skipped"
              /\ thr'[t].written = {}
              /\ backend' = backend
              /\ tier1' = tier1
              /\ tier2' = tier2
              /\ stats' = stats
              /\ crashed' = crashed]_vars

\* A skipped call whose source lacked the NAR magic and whose info named a
\* reference and a hash that is not the source's.
SkipLeavesAllUnchangedWitness ==
    \E t \in Threads :
        /\ JustReturned(t, "addToStore", "skipped")
        /\ ~HasMagic(thr[t].nar)
        /\ thr[t].refs # {}
        /\ HashMismatch([NoInfo EXCEPT !.narHash = thr[t].claimed], thr[t].nar)

\* This step is thread t calling addToStore, repair off, with the info and
\* the NAR of the addToStore (repair off) it has just returned from
\* successfully.
SecondCall(t) ==
    /\ JustReturned(t, "addToStore", "ok")
    /\ ~thr[t].repair
    /\ Calls(t, "addToStore")
    /\ ~thr'[t].repair
    /\ thr'[t].path = thr[t].path
    /\ thr'[t].refs = thr[t].refs
    /\ thr'[t].claimed = thr[t].claimed
    /\ thr'[t].nar = thr[t].nar

\* C4 as stated: the second of two successive identical calls (repair off)
\* leaves the backend and the caches as the first left them and, once it
\* has returned, has incremented narWriteAverted.
SecondCallAverts ==
    [][\A t \in Threads :
          SecondCall(t) =>
              /\ backend' = backend
              /\ tier1' = tier1
              /\ tier2' = tier2
              /\ (thr'[t].pc = "done" =>
                    stats'.narWriteAverted = stats.narWriteAverted + 1)]_vars

\* C4, amended: the second of two successive identical calls (repair off)
\* is skipped at the validity test: it leaves the backend and both cache
\* tiers as the first call left them and increments no counter,
\* narWriteAverted included.
SecondCallSkipped ==
    [][\A t \in Threads :
          SecondCall(t) =>
              /\ thr'[t].pc = "done"
              /\ thr'[t].outcome = "skipped"
              /\ backend' = backend
              /\ tier1' = tier1
              /\ tier2' = tier2
              /\ stats' = stats]_vars

\* The second call has returned: one .narinfo written, nothing averted, and
\* the stored NarInfo is that of the NAR passed both times.
SecondCallSkippedWitness ==
    \E t \in Threads :
        /\ JustReturned(t, "addToStore", "skipped")
        /\ calls = 2
        /\ envOps = 0
        /\ stats.narInfoWrite = 1
        /\ stats.narWrite = 1
        /\ stats.narWriteAverted = 0
        /\ ingested[thr[t].path] = thr[t].nar
        /\ fileExists(backend, "narinfo", narInfoFileFor(thr[t].path))
        /\ StoredNarInfo(thr[t].path).info.narHash = hashString(thr[t].nar)

\* The references of the call thread t makes in this step, other than the
\* path itself, that queryPathInfo reports invalid.
InvalidReferences(t) ==
    { r \in thr'[t].refs \ {thr'[t].path} :
        queryPathInfo(cfg, backend, tier1, tier2, r, FALSE).res = "InvalidPath" }

\* The call thread t makes in this step is not skipped.
NotSkipped(t) ==
    thr'[t].repair \/ ~isValidPath(cfg, backend, tier1, tier2, thr'[t].path)

\* What C5 promises of a call: an Error naming an invalid reference, and no
\* key written.
RejectedForReference(t) ==
    /\ thr'[t].pc = "done"
    /\ thr'[t].outcome = "error"
    /\ thr'[t].err = "reference is not valid"
    /\ thr'[t].ref \in InvalidReferences(t)
    /\ thr'[t].written = {}
    /\ backend' = backend

\* The path's own cache entries are left alone (the path itself is never
\* queried), and the reference a call is rejected for is never the path.
SelfNeverQueried(t) ==
    /\ tier1'[thr'[t].path] = tier1[thr'[t].path]
    /\ tier2'[thr'[t].path] = tier2[thr'[t].path]
    /\ (thr'[t].err = "reference is not valid" => thr'[t].ref # thr'[t].path)

ReachesHashCheck(t) ==
    /\ NotSkipped(t)
    /\ CheckReferences(cfg, backend, tier1, tier2,
                       [NoInfo EXCEPT !.path = thr'[t].path,
                                      !.references = thr'[t].refs],
                       1, FALSE).res = "ok"
    /\ HasMagic(thr'[t].nar)

\* The hash the call thread t makes in this step claims is set and is not
\* that of its NAR.
ClaimsWrongHash(t) ==
    thr'[t].claimed # NoHash /\ thr'[t].claimed # hashString(thr'[t].nar)

\* The call has failed with the corrupted-path error, has written no key
\* and has moved no write counter.
RefusedAsCorrupted(t) ==
    /\ thr'[t].pc = "done"
    /\ thr'[t].outcome = "error"
    /\ thr'[t].err = "refusing to copy corrupted path"
    /\ thr'[t].written = {}
    /\ backend' = backend
    /\ stats'.narWrite = stats.narWrite
    /\ stats'.narWriteAverted = stats.narWriteAverted
    /\ stats'.narWriteBytes = stats.narWriteBytes
    /\ stats'.narWriteCompressedBytes = stats.narWriteCompressedBytes
    /\ stats'.narInfoWrite = stats.narInfoWrite

\* With no hash claimed the call goes on to its writes.
ProceedsUnchecked(t) ==
    /\ thr'[t].pc \in {"listing", "debug", "blob"}
    /\ thr'[t].narInfo.narHash = hashString(thr'[t].nar)

\* The cache entry a fetch of p's .narinfo from the backend leaves.
FetchedEntry(p) ==
    IF fileExists(backend, "narinfo", narInfoFileFor(p)) /\ StoredNarInfo(p).ok
    THEN Positive(StoredNarInfo(p).info)
    ELSE Negative

\* C6 as stated: a call of addToStore that gets to the hash comparison with
\* a claimed narHash that is set and differs from the hash of the drained
\* NAR fails with "refusing to copy corrupted path" and leaves the backend,
\* both cache tiers and the write counters unchanged; with narHash unset
\* the comparison is skipped and the ingest proceeds.
WrongHashLeavesAllUnchanged ==
    [][\A t \in Threads :
          (Calls(t, "addToStore") /\ ReachesHashCheck(t)) =>
              /\ (ClaimsWrongHash(t) =>
                    /\ RefusedAsCorrupted(t)
                    /\ tier1' = tier1
                    /\ tier2' = tier2)
              /\ (thr'[t].claimed = NoHash => ProceedsUnchecked(t))]_vars

\* C6, amended: such a call fails with "refusing to copy corrupted path"
\* and leaves the backend, the write counters and the cache entries of its
\* own path unchanged, while the cache tiers may have gained the entries of
\* the references it queried; with narHash unset the comparison is skipped
\* and the ingest proceeds.
WrongHashRefused ==
    [][\A t \in Threads :
          (Calls(t, "addToStore") /\ ReachesHashCheck(t)) =>
              /\ (ClaimsWrongHash(t) =>
                    /\ RefusedAsCorrupted(t)
                    /\ \A p \in Paths :
                          /\ tier1'[p] \in {tier1[p], FetchedEntry(p)}
                          /\ tier2'[p] \in {tier2[p], FetchedEntry(p)}
                          /\ ( (p = thr'[t].path \/ p \notin thr'[t].refs) =>
                                (tier1'[p] = tier1[p] /\ tier2'[p] = tier2[p]) ))
              /\ (thr'[t].claimed = NoHash => ProceedsUnchecked(t))]_vars

\* A call refused for its hash after its reference was fetched from the
\* backend into the cache.
WrongHashRefusedWitness ==
    \E t \in Threads :
        /\ JustReturned(t, "addToStore", "error")
        /\ thr[t].err = "refusing to copy corrupted path"
        /\ thr[t].claimed # NoHash
        /\ thr[t].refs # {}
        /\ stats.narInfoRead > 0

\* C7 as stated: a call of addToStore that gets to the test of the magic
\* with a source that does not begin with it ends in an error reported to
\* its caller and writes no key.
BadMagicReported ==
    [][\A t \in Threads :
          ( /\ Calls(t, "addToStore")
            /\ NotSkipped(t)
            /\ CheckReferences(cfg, backend, tier1, tier2,
                               [NoInfo EXCEPT !.path = thr'[t].path,
                                              !.references = thr'[t].refs],
                               1, FALSE).res = "ok"
            /\ ~HasMagic(thr'[t].nar) ) =>
              /\ thr'[t].pc = "done"
              /\ thr'[t].outcome = "error"
              /\ ~crashed'
              /\ backend' = backend]_vars

\* The NarInfo queryPathInfo finds for the path of the call thread t makes
\* in this step.
FoundInfo(t) == queryPathInfo(cfg, backend, tier1, tier2, thr'[t].path, FALSE)

\* C8: a narFromPath that finds the NarInfo of its path and whose fetch of
\* the blob raises NoSuchBinaryCacheFile (as the fetch of a missing blob
\* does on a backend with a sink-based getFile) raises SubstituteGone; its
\* sink has got nothing, its decompressor is not finished, and narRead and
\* narReadBytes are as before.
MissingBlobIsSubstituteGone ==
    [][\A t \in Threads :
          Calls(t, "narFromPath") =>
              /\ ( ( /\ cfg.backendKind = "sink"
                     /\ ~thr'[t].ioFail
                     /\ FoundInfo(t).res = "value"
                     /\ ~fileExists(backend, "nar", FoundInfo(t).info.url) ) =>
                       thr'[t].fetch = "NoSuch" )
              /\ ( thr'[t].fetch = "NoSuch" =>
                    /\ thr'[t].pc = "done"
                    /\ thr'[t].outcome = "SubstituteGone"
                    /\ thr'[t].sink = <<>>
                    /\ ~thr'[t].finished
                    /\ stats'.narRead = stats.narRead
                    /\ stats'.narReadBytes = stats.narReadBytes
                    /\ ~crashed' )]_vars

\* A narFromPath that raised SubstituteGone for a path whose .narinfo is in
\* the backend and whose blob is not.
MissingBlobIsSubstituteGoneWitness ==
    \E t \in Threads :
        /\ JustReturned(t, "narFromPath", "SubstituteGone")
        /\ fileExists(backend, "narinfo", narInfoFileFor(thr[t].path))
        /\ StoredNarInfo(thr[t].path).ok
        /\ ~fileExists(backend, "nar", StoredNarInfo(thr[t].path).info.url)

\* C9: a narFromPath on a path addToStore has ingested, whose fetch of the
\* blob delivers data, hands its sink exactly the NAR ingested (narSize
\* bytes, hashing to narHash), finishes the decompressor, and adds one to
\* narRead and that many bytes to narReadBytes; and on a backend nobody else
\* has touched, with no transport failure, the fetch does deliver data.
NarRoundTrip ==
    [][\A t \in Threads :
          (Calls(t, "narFromPath") /\ ingested[thr'[t].path] # <<>>) =>
              /\ ( (~tampered /\ ~thr'[t].ioFail) => thr'[t].fetch = "data" )
              /\ ( thr'[t].fetch = "data" =>
                    /\ thr'[t].pc = "done"
                    /\ thr'[t].outcome = "ok"
                    /\ thr'[t].sink = ingested[thr'[t].path]
                    /\ Len(thr'[t].sink) = thr'[t].narInfo.narSize
                    /\ hashString(thr'[t].sink) = thr'[t].narInfo.narHash
                    /\ thr'[t].finished
                    /\ stats'.narRead = stats.narRead + 1
                    /\ stats'.narReadBytes =
                          stats.narReadBytes + Len(ingested[thr'[t].path]) )]_vars

\* A NAR read back through the xz decompressor.
NarRoundTripWitness ==
    \E t \in Threads :
        /\ JustReturned(t, "narFromPath", "ok")
        /\ thr[t].fetch = "data"
        /\ thr[t].narInfo.compression = "xz"
        /\ thr[t].sink = ingested[thr[t].path]
        /\ Len(thr[t].sink) > Len(NarMagic)

\* C10 as stated: every call of queryPathInfoUncached that has returned has
\* invoked its callback exactly once, with a NarInfo, a null or an
\* exception.
CallbackExactlyOnce ==
    \A t \in Threads :
        (thr[t].pc = "done" /\ thr[t].op = "queryPathInfoUncached") =>
            /\ Len(thr[t].cb) = 1
            /\ thr[t].cb[1].kind \in {"value", "null", "exc"}

\* C11 as stated: getFile(path), with no transport failure, returns the
\* stored bytes when the key exists and otherwise returns null and raises
\* nothing, on a backend that raises NoSuchBinaryCacheFile from its
\* sink-based getFile as on one that hands its callback an empty pointer.
GetFileAbsentIsNull ==
    [][\A t \in Threads :
          (Calls(t, "getFile") /\ ~thr'[t].ioFail) =>
              IF fileExists(backend, "top", thr'[t].path)
              THEN /\ thr'[t].outcome = "ok"
                   /\ thr'[t].finished
                   /\ thr'[t].sink = backend.top[thr'[t].path]
              ELSE /\ thr'[t].outcome = "ok"
                   /\ thr'[t].fetch = "null"
                   /\ ~thr'[t].finished
                   /\ ~crashed']_vars

\* The lines of the nix-cache-info in the backend, as init() splits them.
InfoLines == tokenizeString(backend.top[CacheInfoFile])

KeyOf(line) == SubSeq(line, 1, Find(line, ":") - 1)

ValueOf(line) == trim(SubSeq(line, Find(line, ":") + 1, Len(line)))

\* Line i is a StoreDir line for another store.
ForeignStoreDirAt(i) ==
    /\ Find(InfoLines[i], ":") > 0
    /\ KeyOf(InfoLines[i]) = KStoreDir
    /\ ValueOf(InfoLines[i]) # StoreDir

\* Line i is a Priority line whose value does not begin with a digit.
BadPriorityAt(i) ==
    /\ Find(InfoLines[i], ":") > 0
    /\ KeyOf(InfoLines[i]) = KPriority
    /\ (ValueOf(InfoLines[i]) = <<>> \/ ~IsDigit(ValueOf(InfoLines[i])[1]))

\* The lines with key `name`.
LinesOf(name) ==
    { i \in 1..Len(InfoLines) :
        Find(InfoLines[i], ":") > 0 /\ KeyOf(InfoLines[i]) = name }

Last(S) == CHOOSE i \in S : \A j \in S : j <= i

\* The longest prefix of digits.
LeadingDigits(v) ==
    SubSeq(v, 1, Last({ n \in 0..Len(v) : \A j \in 1..n : IsDigit(v[j]) }))

\* The settings a successful init() leaves: the last WantMassQuery line,
\* true exactly for "1", and the integer of the last Priority line.
SettingsTaken ==
    /\ settings'.wantMassQuery =
          IF LinesOf(KWantMassQuery) = {} THEN settings.wantMassQuery
          ELSE IF ValueOf(InfoLines[Last(LinesOf(KWantMassQuery))]) = <<"1">>
               THEN "true" ELSE "false"
    /\ settings'.priority =
          IF LinesOf(KPriority) = {} THEN settings.priority
          ELSE [set |-> TRUE,
                value |-> Decimal(LeadingDigits(
                              ValueOf(InfoLines[Last(LinesOf(KPriority))])))]

\* This step is thread t calling init(), no transport failure, with a
\* nix-cache-info in the backend.
InitOnPresent(t) ==
    /\ Calls(t, "init")
    /\ ~thr'[t].ioFail
    /\ fileExists(backend, "top", CacheInfoFile)

ConfigurationError(t) ==
    /\ thr'[t].outcome = "error"
    /\ thr'[t].err = "binary cache is for another store prefix"
    /\ backend' = backend

InitWritesWhenAbsent ==
    [][\A t \in Threads :
          (Calls(t, "init") /\ ~thr'[t].ioFail) =>
              IF fileExists(backend, "top", CacheInfoFile)
              THEN backend' = backend
              ELSE /\ thr'[t].outcome = "ok"
                   /\ ~crashed'
                   /\ backend' = upsertFile(backend, "top", CacheInfoFile,
                                            KStoreDir \o <<":", " ">> \o StoreDir
                                                \o <<"\n">>)]_vars

\* The record a successful addSignatures of thread t must have stored: what
\* the backend held when the call began, with the call's signatures added.
SignedRecord(t) == [thr[t].before EXCEPT !.sigs = @ \cup thr[t].sigs]

OneCallsRecord(c) ==
    { [FirstNarInfo(c) EXCEPT !.sigs = @ \cup x] :
        x \in {thr[1].sigs, thr[2].sigs, thr[1].sigs \cup thr[2].sigs} }

\* Two calls of addSignatures for the first path, and no other call, have
\* both returned successfully.
BothSigned ==
    /\ cfg.threads = {1, 2}
    /\ calls = 2
    /\ \A t \in {1, 2} :
          JustReturned(t, "addSignatures", "ok") /\ thr[t].path = FirstPath

\* C13: when two addSignatures for one path, run from two threads in any
\* interleaving, have both returned, the .narinfo in the backend is the
\* first record with the signatures of one call, or of both, added: every
\* earlier signature kept, no other field changed, never a mixture; and
\* so is the entry of each cache tier.
ConcurrentSignaturesOneWins ==
    BothSigned =>
        /\ StoredNarInfo(FirstPath).ok
        /\ StoredNarInfo(FirstPath).info \in OneCallsRecord(cfg)
        /\ tier1[FirstPath].state = "valid"
        /\ tier1[FirstPath].info \in OneCallsRecord(cfg)
        /\ cfg.diskCache =>
              (tier2[FirstPath].state = "valid"
                 /\ tier2[FirstPath].info \in OneCallsRecord(cfg))

\* A lost update: the backend holds the record of the second call only,
\* the in-process cache that of the first.
ConcurrentSignaturesOneWinsWitness ==
    /\ BothSigned
    /\ thr[1].sigs = {SigA}
    /\ thr[2].sigs = {SigB}
    /\ StoredNarInfo(FirstPath).info.sigs = FirstNarInfo(cfg).sigs \cup {SigB}
    /\ tier1[FirstPath].info.sigs = FirstNarInfo(cfg).sigs \cup {SigA}

\* The backend one addToStore of `nar` for `info` leaves on an empty one.
SingleCallBackend(c, info, nar) ==
    [ narinfo |-> [k \in {narInfoFileFor(info.path)} |->
                      to_string(MakeNarInfo(c, info, nar))],
      nar |-> [u \in {MakeNarInfo(c, info, nar).url} |->
                  compress(c.compression, nar)],
      ls |-> IF c.writeNARListing
             THEN [k \in {<<info.path, "ls">>} |-> Listing(nar)]
             ELSE EmptyMap,
      debuginfo |-> IF c.writeDebugInfo
                    THEN [id \in BuildIds(nar) |->
                             DebugLink(MakeNarInfo(c, info, nar).url, id)]
                    ELSE EmptyMap,
      top |-> EmptyMap ]

\* C14: when two threads have each returned from addToStore for the same
\* path with the same content (repair off, no signing key, no upsertFile
\* failing), whatever the interleaving, neither call has failed and the
\* backend is the one a single call leaves: the .narinfo exists, the blob
\* it names exists, and its narHash, narSize, fileHash and url are those
\* of the single call.
ConcurrentIngestAsOne ==
    (\A t \in {1, 2} : thr[t].pc = "done" /\ thr[t].op = "addToStore") =>
        /\ \A t \in {1, 2} : thr[t].outcome \in {"ok", "skipped"}
        /\ ~crashed
        /\ fileExists(backend, "narinfo", narInfoFileFor(thr[1].path))
        /\ fileExists(backend, "nar", StoredNarInfo(thr[1].path).info.url)
        /\ StoredNarInfo(thr[1].path).info.narHash = hashString(thr[1].nar)
        /\ StoredNarInfo(thr[1].path).info.narSize = Len(thr[1].nar)
        /\ StoredNarInfo(thr[1].path).info.fileHash =
              hashString(compress(cfg.compression, thr[1].nar))
        /\ backend = SingleCallBackend(cfg,
                         [NoInfo EXCEPT !.path = thr[1].path,
                                        !.references = thr[1].refs,
                                        !.narHash = thr[1].claimed],
                         thr[1].nar)

\* Both calls ran to their .narinfo upsert, one of them having found the
\* blob of the other, with a debuginfo link written on the way.
ConcurrentIngestAsOneWitness ==
    /\ \A t \in {1, 2} : JustReturned(t, "addToStore", "ok")
    /\ stats.narInfoWrite = 2
    /\ stats.narWriteAverted = 1
    /\ backend.debuginfo # EmptyMap

\* The text of drv as unparse gives it.
Original == unparse(drv, FALSE, NoInputs)

\* parseDerivation has returned or thrown on the text as unparse gave it.
ParsedOriginal == edit = NotEdited /\ parsed # NotParsed

\* C17: for every Derivation d, whatever characters its output ids,
\* platform, builder, arguments and environment hold and whatever kinds its
\* outputs are of, parseDerivation(unparse(d, false), d.name) succeeds and
\* gives d back.
RoundTrip ==
    ParsedOriginal => (parsed.err = "" /\ parsed.val = drv)

\* The strings unparse prints without escaping hold neither '"' nor '\'.
NothingToEscape(s) == \A i \in 1..Len(s) : s[i] \notin {"\"", "\\"}

PrintsAsMeant(d) ==
    /\ NothingToEscape(d.platform)
    /\ \A id \in DOMAIN d.outputs : NothingToEscape(id)
    /\ \A p \in DOMAIN d.inputDrvs : \A o \in d.inputDrvs[p] : NothingToEscape(o)

\* Something was put after the last ')'.
TextFollows == edit.kind = "insert" /\ edit.pos = Len(Original) + 1

\* A ',' was put right after the '[' that opens a list.
LeadingComma ==
    /\ edit.kind = "insert"
    /\ edit.ch = ","
    /\ edit.pos > 1
    /\ Original[edit.pos - 1] = "["

\* The ',' between two elements of a list was taken out.
NoSeparator ==
    /\ edit.kind = "delete"
    /\ edit.ch = ","
    /\ edit.pos > 1
    /\ edit.pos < Len(Original)
    /\ Original[edit.pos - 1] = ")"
    /\ Original[edit.pos + 1] = "("

\* A blank was put between two tokens.
BlankBetweenTokens ==
    /\ edit.kind = "insert"
    /\ edit.ch = " "
    /\ edit.pos > 1
    /\ edit.pos <= Len(Original)
    /\ Original[edit.pos - 1] \in {"[", "("}

\* C18: parseDerivation fails with FormatError on a text that deviates from
\* the grammar: one with text after the final ')', with a ',' before the
\* first element of a list, with two elements of a list not separated, or
\* with a blank between tokens.
DeviationRejected ==
    ( /\ PrintsAsMeant(drv)
      /\ parsed # NotParsed
      /\ TextFollows \/ LeadingComma \/ NoSeparator \/ BlankBetweenTokens )
    => parsed.err = "FormatError"

\* A fixed-output derivation: exactly one output, named out, of the Fixed
\* variant.
SingleFixedOut(d) ==
    /\ DOMAIN d.outputs = {Out}
    /\ d.outputs[Out].kind = "fixed"

\* What hashDerivationModulo gives the derivation stored at p.
Modulo(p) == hashDerivationModulo(readDerivation(p), FALSE, <<>>).hash

\* The input derivations j are the input derivations i with each replaced
\* by one of the same hashDerivationModulo, the same outputs wanted.
Replaced(i, j) ==
    \E f \in [DOMAIN i -> DOMAIN j] :
        /\ \A p, q \in DOMAIN i : f[p] = f[q] => p = q
        /\ \A q \in DOMAIN j : \E p \in DOMAIN i : f[p] = q
        /\ \A p \in DOMAIN i : Modulo(f[p]) = Modulo(p) /\ j[f[p]] = i[p]

\* The two calls made were for derivations that are not fixed-output and
\* differ in nothing but their input derivations, those of the one being
\* the other's replaced.
InputsReplaced ==
    /\ prev.made
    /\ last.made
    /\ ~SingleFixedOut(prev.drv)
    /\ ~SingleFixedOut(last.drv)
    /\ prev.maskOutputs = last.maskOutputs
    /\ [prev.drv EXCEPT !.inputDrvs = <<>>] = [last.drv EXCEPT !.inputDrvs = <<>>]
    /\ Replaced(prev.drv.inputDrvs, last.drv.inputDrvs)

\* C19: hashDerivationModulo of a derivation that is not fixed-output is
\* the same after its input derivations are replaced by others of the same
\* hashDerivationModulo with the same outputs wanted, also when two of
\* the inputs have one hashDerivationModulo and different outputs wanted.
ModuloIgnoresInputPaths ==
    InputsReplaced => prev.hash = last.hash

\* The text whose SHA-256 a fixed-output derivation is to be given.
FixedText(d) ==
    <<"f", "i", "x", "e", "d", ":", "o", "u", "t", ":">>
    \o printMethodAlgo(d.outputs[Out]) \o <<":">>
    \o Base16(d.outputs[Out].digest) \o <<":">>
    \o printStorePath(makeFixedOutputPath(d.outputs[Out], d.name))

\* C20: hashDerivationModulo of a fixed-output derivation is the SHA-256 of
\* 'fixed:out:', the method and algorithm, ':', the hash in base 16, ':'
\* and the output path; the call leaves the memo table as it was and reads
\* no derivation; and two fixed-output derivations of one method,
\* algorithm, hash and name get one hash whatever else they hold and
\* whatever maskOutputs is.
FixedOutputHashed ==
    (last.made /\ SingleFixedOut(last.drv)) =>
        /\ last.hash = hashString(FixedText(last.drv))
        /\ drvHashes = last.before
        /\ last.read = {}
        /\ ( /\ prev.made
             /\ SingleFixedOut(prev.drv)
             /\ prev.drv.outputs = last.drv.outputs
             /\ prev.drv.name = last.drv.name )
           => prev.hash = last.hash

\* Two fixed-output derivations of one output and name hashed, the second
\* with input derivations and the other value of maskOutputs.
FixedOutputHashedWitness ==
    /\ prev.made
    /\ last.made
    /\ SingleFixedOut(prev.drv)
    /\ SingleFixedOut(last.drv)
    /\ prev.drv.outputs = last.drv.outputs
    /\ prev.drv.name = last.drv.name
    /\ DOMAIN prev.drv.inputDrvs = {}
    /\ DOMAIN last.drv.inputDrvs # {}
    /\ prev.maskOutputs # last.maskOutputs

\* C21 as stated: with hashDerivationModulo running on several threads, no
\* lookup in drvHashes and no insertion into it overlaps the insertion of
\* another thread, and two threads that have inserted for one input
\* derivation have inserted the same value.
MemoAccessedUnderLock ==
    /\ \A t \in Threads : Inserting(t) => Accessing(t) = {}
    /\ \A t, u \in Threads :
         \A a \in thr[t].inserted, b \in thr[u].inserted :
             a[1] = b[1] => a[2] = b[2]

\* The deriver the .narinfo of p in the backend names ("" for none).
DeriverOf(p) == StoredNarInfo(p).info.deriver

\* The call of getBuildLog thread t makes in this step asked the backend
\* for the log of the derivation drvPath, and for nothing when that is "".
AskedLogOf(t, drvPath) ==
    thr'[t].cb = IF drvPath = "" THEN <<>> ELSE <<logPath(drvPath)>>

\* The call returned absent: a null pointer, no error.
ReturnedAbsent(t) ==
    thr'[t].outcome = "ok" /\ thr'[t].fetch = "null" /\ ~thr'[t].finished

\* C22 as stated: getBuildLog(path), with no transport failure, asks the
\* backend for 'log/<base name of path>' when path is a derivation, the
\* path-info caches and narInfoRead left as they were; when path is not a
\* derivation it returns absent, asking for no log, if the path is invalid
\* or its path info has no deriver, and otherwise asks for 'log/<base name
\* of the deriver>'; and a log key that is missing yields absent, not an
\* error.
BuildLogOfDeriver ==
    [][\A t \in Threads :
          (Calls(t, "getBuildLog") /\ ~thr'[t].ioFail) =>
              /\ IF isDerivation(LogNames[thr'[t].path])
                 THEN /\ AskedLogOf(t, thr'[t].path)
                      /\ UNCHANGED <<tier1, tier2, stats>>
                 ELSE IF ~isValidPath(cfg, backend, tier1, tier2, thr'[t].path)
                 THEN AskedLogOf(t, "") /\ ReturnedAbsent(t)
                 ELSE /\ AskedLogOf(t, DeriverOf(thr'[t].path))
                      /\ DeriverOf(thr'[t].path) = "" => ReturnedAbsent(t)
              /\ \A k \in { thr'[t].cb[i] : i \in 1..Len(thr'[t].cb) } :
                    ~fileExists(backend, "log", k) => ReturnedAbsent(t)]_vars

\* Thread t is in an addToStore that has passed its checks and has not
\* come to line 248 yet: it is writing the listing or the debuginfo links.
BeforeBlob(t) == thr[t].op = "addToStore" /\ thr[t].pc \in {"listing", "debug"}

\* This step is thread t taking line 248.
TakesBlobTest(t) == thr[t].pc = "blob" /\ thr'[t] # thr[t]

\* This step adds one to one of narWrite and narWriteAverted and leaves the
\* other: to narWrite exactly when `write`.
CountsOne(write) ==
    /\ stats'.narWrite = stats.narWrite + (IF write THEN 1 ELSE 0)
    /\ stats'.narWriteAverted = stats.narWriteAverted + (IF write THEN 0 ELSE 1)

\* From line 248 on: the blob is upserted under the url of the NarInfo
\* exactly when repair is set or the url is not in the backend, with one of
\* narWrite and narWriteAverted incremented by one, and neither counter
\* moves in any other step; the upsert, when it succeeds, puts the
\* compressed NAR under that url; and narInfoWrite moves by one, in the step
\* of an addToStore that has put its .narinfo into the backend.
BlobWrittenOrAverted ==
    /\ \A t \in Threads :
         TakesBlobTest(t) =>
             /\ thr'[t].pc = "blobwrite" <=>
                   (thr[t].repair \/ ~fileExists(backend, "nar", thr[t].narInfo.url))
             /\ thr'[t].pc \in {"blobwrite", "narinfo"}
             /\ CountsOne(thr'[t].pc = "blobwrite")
             /\ backend' = backend
    /\ (\A t \in Threads : ~TakesBlobTest(t)) =>
           /\ stats'.narWrite = stats.narWrite
           /\ stats'.narWriteAverted = stats.narWriteAverted
    /\ \A t \in Threads :
         (thr[t].pc = "blobwrite" /\ thr'[t].pc = "narinfo") =>
             /\ fileExists(backend', "nar", thr[t].narInfo.url)
             /\ backend'.nar[thr[t].narInfo.url] = compress(cfg.compression, thr[t].nar)
    /\ stats'.narInfoWrite # stats.narInfoWrite =>
           /\ stats'.narInfoWrite = stats.narInfoWrite + 1
           /\ \E t \in Threads :
                 /\ thr[t].pc = "narinfo"
                 /\ thr'[t].outcome = "ok"
                 /\ fileExists(backend', "narinfo", narInfoFileFor(thr[t].path))
                 /\ backend'.narinfo[narInfoFileFor(thr[t].path)]
                      = to_string(thr'[t].narInfo)

\* No more .narinfo writes counted than blob writes made or averted.
NarInfoWritesCounted ==
    stats.narInfoWrite <= stats.narWrite + stats.narWriteAverted

\* C23 as stated: every addToStore that passes the validity, reference,
\* magic and hash checks comes to line 248, where the blob is upserted
\* exactly when repair is set or the url is not in the backend and exactly
\* one of narWrite and narWriteAverted is incremented by one; narInfoWrite
\* is incremented only after the .narinfo was written; and narInfoWrite <=
\* narWrite + narWriteAverted in every reachable state.
EveryCheckedCallCounts ==
    /\ []NarInfoWritesCounted
    /\ [][/\ BlobWrittenOrAverted
          /\ \A t \in Threads : BeforeBlob(t) => thr'[t].pc # "done"]_vars

\* C23, amended: every addToStore that passes the checks and whose listing
\* and debuginfo writes (if it has any) do not fail comes to line 248; in
\* every call that does, the blob is upserted exactly when repair is set or
\* the url is not in the backend and exactly one of narWrite and
\* narWriteAverted is incremented by one (narWrite before the upsert, so
\* also when the upsert fails); narInfoWrite is incremented only after the
\* .narinfo was written; and narInfoWrite <= narWrite + narWriteAverted in
\* every reachable state.
CallAtBlobCounts ==
    /\ []NarInfoWritesCounted
    /\ [][/\ BlobWrittenOrAverted
          /\ \A t \in Threads :
               (BeforeBlob(t) /\ thr'[t].pc = "done") =>
                   thr'[t].outcome = "error" /\ thr'[t].err = "upsertFile"]_vars

\* An addToStore whose upsert of the blob failed: narWrite counted, no blob
\* and no .narinfo in the backend, narInfoWrite not counted.
CallAtBlobCountsWitness ==
    \E t \in Threads :
        /\ JustReturned(t, "addToStore", "error")
        /\ thr[t].err = "upsertFile"
        /\ stats.narWrite = 1
        /\ stats.narWriteAverted = 0
        /\ stats.narInfoWrite = 0
        /\ backend.nar = EmptyMap
        /\ backend.narinfo = EmptyMap

\* This step is thread t upserting the debuginfo link of build id `id`.
WritesDebugLink(t, id) == id \in thr[t].dbgWrite /\ id \notin thr'[t].dbgWrite

\* C24 as stated: a key debuginfo/<buildId> that is in the backend keeps its
\* content through every step of every addToStore, with repair or without,
\* from one thread or from two; a debuginfo link is upserted only for a key
\* that is not in the backend; and an ingest that is at its blob or at its
\* .narinfo has no debuginfo task queued or running.
DebugLinkWrittenOnce ==
    /\ [](\A t \in Threads :
            thr[t].pc \in {"blob", "blobwrite", "narinfo"} =>
                thr[t].dbgTodo = {} /\ thr[t].dbgWrite = {})
    /\ [][/\ \A id \in DOMAIN backend.debuginfo :
               /\ id \in DOMAIN backend'.debuginfo
               /\ backend'.debuginfo[id] = backend.debuginfo[id]
          /\ \A t \in Threads : \A id \in thr[t].dbgWrite :
               WritesDebugLink(t, id) => ~fileExists(backend, "debuginfo", id)]_vars

\* This step puts a positive entry for p into the tier, or replaces one.
Installed(tier, tierAfter, p) ==
    tierAfter[p] # tier[p] /\ tierAfter[p].state = "valid"

\* The positive entries of both tiers are for .narinfo keys of the backend.
CachedIsStored ==
    \A p \in Paths :
        (tier1[p].state = "valid" \/ tier2[p].state = "valid") =>
            fileExists(backend, "narinfo", narInfoFileFor(p))

\* With one calling thread, a call that has just returned from writeNarInfo
\* has left in the in-process cache, and in the disk cache when there is
\* one, the record the backend holds.
CachedEqualsStored ==
    \A t \in Threads :
        (cfg.threads = {1} /\ JustReturned(t, "addSignatures", "ok")) =>
            /\ tier1[thr[t].path] = Positive(StoredNarInfo(thr[t].path).info)
            /\ cfg.diskCache =>
                  tier2[thr[t].path] = Positive(StoredNarInfo(thr[t].path).info)
            /\ ~cfg.diskCache => tier2[thr[t].path] = Unknown

\* C25: writeNarInfo puts the entry of a path into the in-process cache and
\* into the disk cache only after its upsert of the .narinfo has returned
\* (the key is in the backend before either entry is); when that upsert
\* fails the call ends with both tiers and the backend as they were; so,
\* nothing being deleted, every positive entry of either tier is for a
\* .narinfo key the backend holds, and after a write by a single caller the
\* cached record is the record stored.
CacheAfterUpsert ==
    /\ [](CachedIsStored /\ CachedEqualsStored)
    /\ [](\A t \in Threads :
            thr[t].pc \in {"sigcache", "sigdisk"} =>
                /\ "narinfo" \in thr[t].written
                /\ fileExists(backend, "narinfo", narInfoFileFor(thr[t].path)))
    /\ [][/\ \A p \in Paths :
               (Installed(tier1, tier1', p) \/ Installed(tier2, tier2', p)) =>
                   fileExists(backend, "narinfo", narInfoFileFor(p))
          /\ \A t \in Threads :
               (thr[t].pc = "sigwrite" /\ thr'[t].pc = "done") =>
                   /\ thr'[t].outcome = "error"
                   /\ UNCHANGED <<backend, tier1, tier2>>
          /\ \A t \in Threads :
               (thr[t].pc = "sigwrite" /\ thr'[t].pc = "sigcache") =>
                   /\ UNCHANGED <<tier1, tier2>>
                   /\ backend'.narinfo[narInfoFileFor(thr[t].path)]
                        = to_string(thr[t].narInfo)]_vars

\* An addSignatures whose upsert failed, on a store whose caches held the
\* record of the earlier ingest: they hold it still, and the backend is as
\* that ingest left it.
CacheAfterUpsertWitness ==
    \E t \in Threads :
        /\ JustReturned(t, "addSignatures", "error")
        /\ thr[t].err = "upsertFile"
        /\ thr[t].sigs # {}
        /\ cfg.diskCache
        /\ tier1[FirstPath] = Positive(FirstNarInfo(cfg))
        /\ tier2[FirstPath] = Positive(FirstNarInfo(cfg))
        /\ backend = FirstBackend(cfg)

\* C26 as stated: parseDerivation terminates on every finite text, with a
\* Derivation or with an error it throws for the text; so it does on a text
\* that ends inside a quoted string, right after a backslash, or inside a
\* list.
ParseTerminates ==
    parsed # NotParsed => parsed.err # "std::bad_alloc"

\* C27: after writeDerivation(sink, d) and readDerivation(source, t, d.name)
\* the target t has the outputs, inputSrcs, platform, builder, args and env of
\* d, whatever t held before: nothing of its previous outputs, args or env
\* is left.
CodecRoundTrip ==
    (parsed # NotParsed /\ wire # <<>>)
        => /\ parsed.err = ""
           /\ target.outputs = drv.outputs
           /\ target.inputSrcs = drv.inputSrcs
           /\ target.platform = drv.platform
           /\ target.builder = drv.builder
           /\ target.args = drv.args
           /\ target.env = drv.env

====
